---- MODULE Spec2Model ----
(***************************************************************************)
(* Delivery session / truck simulation engine of hk-logistics-eta-demo     *)
(* (src/src/services/truckService.ts, latest revision, lines 473-1138),    *)
(* with the traffic cache and the distance utilities it reads              *)
(* (src/src/services/tdas.ts).                                             *)
(*                                                                         *)
(* Numbers.  JavaScript numbers are modelled as exact rationals <<n, d>>   *)
(* (d > 0, lowest terms); Dates are whole seconds on the clock `now`.      *)
(* Date | null is a sequence of length <= 1.  The inputs are drawn so that *)
(* no division has a zero divisor (hydrateFromTrips guards totalDist > 0,  *)
(* speeds handed in are positive).                                         *)
(*                                                                         *)
(* estimatedArrival is written by the engine and never read by it; it is   *)
(* left out of the truck record.                                           *)
(***************************************************************************)
EXTENDS Integers, Sequences, FiniteSets, TLC

VARIABLES
    now,              \* wall clock, seconds (new Date())
    corridors,        \* tdas.ts: traffic cache, routeId -> sample | NoSample
    config,           \* truckService.ts:529
    activeTrucks,     \* truckService.ts:530, a Map in insertion order
    deliveryLog,      \* truckService.ts:531
    nextTruckNumber,  \* truckService.ts:532
    nextDispatchTime, \* truckService.ts:533
    isRunning,        \* truckService.ts:534
    tripToTruckId,    \* truckService.ts:537
    routeGeometry,    \* truckService.ts:50, the earlier revision's single path
    stitchRouteIds,   \* pathStitcher: the corridor ids handed to stitchPath
    stitchStart,      \* pathStitcher: the anchor handed to stitchPath, or none
    stitchedPath,     \* pathStitcher: what stitchPath returned
    trucks,           \* truckService.ts:362, the fleet of the legacy simulation
    deliveryRecords,  \* truckService.ts:363
    trafficFetches,   \* index.ts:1162, the traffic requests awaited, oldest first
    tripsTable,       \* index.ts:1201-1212, public.trips: trip id -> status
    syncCycles,       \* index.ts:1213, the sync cycles past their query, oldest first
    startupPhase      \* index.ts:1188-1357, how far the startup of the server has come

engineVars == <<now, corridors, config, activeTrucks, deliveryLog, nextTruckNumber,
                nextDispatchTime, isRunning, tripToTruckId, routeGeometry>>
stitchVars == <<stitchRouteIds, stitchStart, stitchedPath>>
legacyVars == <<trucks, deliveryRecords>>
asyncVars == <<trafficFetches, tripsTable, syncCycles, startupPhase>>

vars == <<engineVars, stitchVars, legacyVars, asyncVars>>

---------------------------------------------------------------------------
(* Bounds of the model *)

MaxClockSteps == 2
MaxLog == 2
MaxTruckNumber == 3

(* Program constants *)

MIXER_MAX_SPEED == 70
SecondsPerHour == 3600

\* the engine built with automatic dispatch switched on
AutoDispatchOn == TRUE

AUTO_DISPATCH_ENABLED == FALSE

---------------------------------------------------------------------------
(* Exact rational arithmetic standing for JavaScript numbers *)

Abs(x) == IF x < 0 THEN -x ELSE x

RECURSIVE GCD(_, _)
GCD(a, b) == IF b = 0 THEN a ELSE GCD(b, a % b)

Rat(n, d) ==
    LET g == GCD(Abs(n), Abs(d))
        s == IF d < 0 THEN -1 ELSE 1
    IN  <<(s * n) \div g, (s * d) \div g>>

RInt(i) == <<i, 1>>
RZero == RInt(0)
ROne == RInt(1)

RLe(a, b) == a[1] * b[2] <= b[1] * a[2]
RLt(a, b) == a[1] * b[2] < b[1] * a[2]
RMin(a, b) == IF RLe(a, b) THEN a ELSE b
RMax(a, b) == IF RLe(a, b) THEN b ELSE a
RAdd(a, b) == Rat(a[1] * b[2] + b[1] * a[2], a[2] * b[2])
RSub(a, b) == Rat(a[1] * b[2] - b[1] * a[2], a[2] * b[2])
RMul(a, b) == Rat(a[1] * b[1], a[2] * b[2])
RDiv(a, b) == Rat(a[1] * b[2], a[2] * b[1])

---------------------------------------------------------------------------
(* Geometry and distance utilities (etaService, kept in tdas.ts).          *)
(* Coordinates are <<lng, lat>> on a grid whose unit is one kilometre and  *)
(* every model polyline is axis-aligned, so the great-circle distance of   *)
(* two consecutive points is the sum of their coordinate differences.      *)

haversineDistance(lat1, lng1, lat2, lng2) == Abs(lat2 - lat1) + Abs(lng2 - lng1)

RECURSIVE RouteDistanceFrom(_, _)
RouteDistanceFrom(coords, i) ==
    IF i >= Len(coords) THEN 0
    ELSE haversineDistance(coords[i][2], coords[i][1], coords[i + 1][2], coords[i + 1][1])
         + RouteDistanceFrom(coords, i + 1)

\* distance in km along the coordinate list of a line
calculateRouteDistance(coords) == RouteDistanceFrom(coords, 1)

RECURSIVE InterpolateFrom(_, _, _, _)
InterpolateFrom(coords, i, currentDist, targetDist) ==
    IF i >= Len(coords)
    THEN <<RInt(coords[Len(coords)][1]), RInt(coords[Len(coords)][2])>>
    ELSE LET lng1 == coords[i][1]
             lat1 == coords[i][2]
             lng2 == coords[i + 1][1]
             lat2 == coords[i + 1][2]
             segmentDist == haversineDistance(lat1, lng1, lat2, lng2)
         IN  IF RLe(targetDist, RInt(currentDist + segmentDist))
             THEN LET ratio == RDiv(RSub(targetDist, RInt(currentDist)), RInt(segmentDist))
                  IN  <<RAdd(RInt(lng1), RMul(RInt(lng2 - lng1), ratio)),
                        RAdd(RInt(lat1), RMul(RInt(lat2 - lat1), ratio))>>
             ELSE InterpolateFrom(coords, i + 1, currentDist + segmentDist, targetDist)

interpolatePosition(coords, progressRatio) ==
    IF Len(coords) = 0 THEN <<RZero, RZero>>
    ELSE InterpolateFrom(coords, 1, 0,
                         RMul(RInt(calculateRouteDistance(coords)), progressRatio))

---------------------------------------------------------------------------
(* The collaborators' data: the corridor store and the named paths *)

PathIds == {"GAMMON_TM", "HKC_TY", "FUTURE_PATH"}

\* constants/projectRoutes: the corridor ids of each named path
PROJECT_PATHS == [GAMMON_TM |-> <<1, 2, 3, 4>>, HKC_TY |-> <<5>>, FUTURE_PATH |-> <<>>]

NoCorridor == [absent |-> TRUE]

\* corridorService: routeId -> corridor feature (3 has a zero-length line, 4 is not loaded)
getAllCorridors ==
    [r \in 1..5 |->
        CASE r = 1 -> [geometry |-> <<<<0, 0>>, <<12, 0>>>>]
          [] r = 2 -> [geometry |-> <<<<12, 0>>, <<20, 0>>>>]
          [] r = 3 -> [geometry |-> <<<<20, 0>>, <<20, 0>>>>]
          [] r = 5 -> [geometry |-> <<<<0, 0>>, <<0, 10>>>>]
          [] OTHER -> NoCorridor]

\* the stitched path geometries a session is started with
NoGeometry == [absent |-> TRUE]
GammonGeometry == [coordinates |-> <<<<0, 0>>, <<12, 0>>, <<20, 0>>>>, segmentCount |-> 2]
HkcGeometry == [coordinates |-> <<<<0, 0>>, <<0, 10>>>>, segmentCount |-> 1]

---------------------------------------------------------------------------
(* Traffic cache (tdas.ts) *)

NoSample == [absent |-> TRUE]

\* the corridor ids the traffic feed reports
TrafficIds == {1}

\* a classification whose thresholds belong to the state below
speedToStateInclusive(speed) ==
    IF speed <= 30 THEN "RED" ELSE IF speed <= 50 THEN "YELLOW" ELSE "GREEN"

speedToState(speed) ==
    IF speed < 30 THEN "RED" ELSE IF speed < 50 THEN "YELLOW" ELSE "GREEN"

\* an update that writes an entry once and never overwrites it
updateCorridorStateOnce(cs, routeId, state, speed, t) ==
    IF cs[routeId] = NoSample
    THEN [cs EXCEPT ![routeId] = [id |-> routeId, state |-> state, speed |-> speed,
                                  lastUpdated |-> t]]
    ELSE cs

updateCorridorState(cs, routeId, state, speed, t) ==
    IF cs[routeId] = NoSample
    THEN [cs EXCEPT ![routeId] = [id |-> routeId, state |-> state, speed |-> speed,
                                  lastUpdated |-> t]]
    ELSE [cs EXCEPT ![routeId].state = state, ![routeId].speed = speed,
                    ![routeId].lastUpdated = t]

\* the empty Map a fetch returns when it has nothing
NoSpeedMap == <<>>

\* a fetch that reports a standstill on the first feed corridor when it has nothing
fetchStandstillOnFailure(response) ==
    IF response.kind # "parsed" \/ Len(response.segments) = 0
    THEN <<[segmentId |-> 1, speed |-> 0]>>
    ELSE SelectSeq(response.segments, LAMBDA seg : seg.segmentId > 0 /\ seg.speed >= 0)

\* trafficService.fetchTrafficSpeedMap, as a function of what the feed answered: an HTTP
\* error, a network or parse exception and an empty segment list all give the empty Map;
\* otherwise the segments with a positive id and a non-negative speed, in feed order
fetchTrafficSpeedMap(response) ==
    IF response.kind # "parsed" \/ Len(response.segments) = 0
    THEN NoSpeedMap
    ELSE SelectSeq(response.segments, LAMBDA seg : seg.segmentId > 0 /\ seg.speed >= 0)

RECURSIVE updateTrafficData(_, _, _)
\* index.ts updateTrafficData: the loop over the entries of the speed map
updateTrafficData(cs, speedMap, t) ==
    IF Len(speedMap) = 0 THEN cs
    ELSE LET routeId == Head(speedMap).segmentId
             state == speedToState(Head(speedMap).speed)
             cs1 == IF routeId \in DOMAIN getAllCorridors
                       /\ getAllCorridors[routeId] # NoCorridor
                    THEN updateCorridorState(cs, routeId, state, Head(speedMap).speed, t)
                    ELSE cs
         IN  updateTrafficData(cs1, Tail(speedMap), t)

---------------------------------------------------------------------------
(* Delivery engine state (truckService.ts:528-538) as one record, so that  *)
(* the functions below compose the way the calls in the code do.           *)

NoConfig == [absent |-> TRUE]
NoDate == <<>>
NoId == <<>>

TripIds == {"a", "b"}

St == [config |-> config, activeTrucks |-> activeTrucks, deliveryLog |-> deliveryLog,
       nextTruckNumber |-> nextTruckNumber, nextDispatchTime |-> nextDispatchTime,
       isRunning |-> isRunning, tripToTruckId |-> tripToTruckId]

\* Map<string, ConcreteTruck> in insertion order: a sequence of trucks with distinct ids
MapIndex(m, id) ==
    IF \E i \in 1..Len(m) : m[i].truckId = id
    THEN CHOOSE i \in 1..Len(m) : m[i].truckId = id
    ELSE 0
MapHas(m, id) == MapIndex(m, id) # 0
MapGet(m, id) == m[MapIndex(m, id)]
MapSet(m, id, truck) ==
    IF MapHas(m, id) THEN [m EXCEPT ![MapIndex(m, id)] = truck] ELSE Append(m, truck)
MapDelete(m, id) == SelectSeq(m, LAMBDA t : t.truckId # id)

RECURSIVE SumVolume(_)
SumVolume(log) ==
    IF Len(log) = 0 THEN 0
    ELSE SumVolume(SubSeq(log, 1, Len(log) - 1)) + log[Len(log)].concreteVolume

\* config.pathGeometries.GAMMON_TM || config.pathGeometries.HKC_TY
BaseGeometry(cfg) ==
    IF cfg.pathGeometries.GAMMON_TM # NoGeometry
    THEN cfg.pathGeometries.GAMMON_TM
    ELSE cfg.pathGeometries.HKC_TY

\* Math.min(speed, MIXER_MAX_SPEED)
CapSpeed(speed) == IF speed < MIXER_MAX_SPEED THEN speed ELSE MIXER_MAX_SPEED

\* a reading of the test that takes a sample of speed 0 for a measurement
HasSpeedAnySample(tdasData) == tdasData # NoSample

\* tdasData && tdasData.speed > 0
HasSpeed(tdasData) == tdasData # NoSample /\ tdasData.speed > 0

\* the speed one corridor of a path contributes
CorridorSpeed(tdasData, defaultSpeed) ==
    IF HasSpeed(tdasData) THEN CapSpeed(tdasData.speed) ELSE CapSpeed(defaultSpeed)

RECURSIVE PathSpeedSums(_, _, _)
\* <<totalWeightedSpeed, totalDistance>> of the loop over the path's corridors
PathSpeedSums(routeIds, defaultSpeed, cs) ==
    IF Len(routeIds) = 0 THEN <<0, 0>>
    ELSE LET routeId == Head(routeIds)
             rest == PathSpeedSums(Tail(routeIds), defaultSpeed, cs)
             tdasData == cs[routeId]
             corridor == getAllCorridors[routeId]
         IN  IF corridor = NoCorridor THEN rest
             ELSE LET segDist == calculateRouteDistance(corridor.geometry)
                      speed == CorridorSpeed(tdasData, defaultSpeed)
                  IN  IF segDist <= 0 THEN rest
                      ELSE <<rest[1] + speed * segDist, rest[2] + segDist>>

getPathAverageSpeed(pathId, defaultSpeed, cs) ==
    LET sums == PathSpeedSums(PROJECT_PATHS[pathId], defaultSpeed, cs)
    IN  IF sums[2] <= 0
        THEN RInt(CapSpeed(defaultSpeed))
        ELSE Rat(sums[1], sums[2])

HourWindowOf(t, startTime) == (t - startTime) \div SecondsPerHour

\* a completion that leaves the arrival time unset
ArrivedUntimed(truck, t) == [truck EXCEPT !.status = "arrived", !.progressRatio = ROne]

\* truck.status = 'arrived'; truck.arrivalTime = new Date(); truck.progressRatio = 1
Arrived(truck, t) ==
    [truck EXCEPT !.status = "arrived", !.arrivalTime = <<t>>, !.progressRatio = ROne]

completeTruck(st, truckId, t) ==
    IF ~MapHas(st.activeTrucks, truckId) \/ st.config = NoConfig THEN st
    ELSE LET truck == MapGet(st.activeTrucks, truckId)
             arrived == Arrived(truck, t)
             hourWindow == HourWindowOf(t, st.config.startTime)
             cumulativeVol == SumVolume(st.deliveryLog) + truck.concreteVolume
         IN  [st EXCEPT
                !.activeTrucks = MapSet(st.activeTrucks, truckId, arrived),
                !.deliveryLog = Append(st.deliveryLog,
                    [truckId |-> truckId, truckNumber |-> truck.truckNumber,
                     routeId |-> truck.routeId, departureTime |-> truck.departureTime,
                     arrivalTime |-> t, travelTimeSeconds |-> truck.elapsedSeconds,
                     concreteVolume |-> truck.concreteVolume,
                     cumulativeVolume |-> cumulativeVol, hourWindow |-> hourWindow])]

RECURSIVE Digits(_)
\* String(n): the decimal digits of a number
Digits(n) == IF n < 10 THEN <<n>> ELSE Digits(n \div 10) \o <<n % 10>>

RECURSIVE padStart(_, _, _)
\* s.padStart(targetLength, fill): fill put in front until the length is reached
padStart(s, targetLength, fill) ==
    IF Len(s) >= targetLength THEN s ELSE padStart(<<fill>> \o s, targetLength, fill)

\* `CMX-${String(nextTruckNumber).padStart(3, '0')}`
CmxId(truckNumber) == <<"CMX", padStart(Digits(truckNumber), 3, 0)>>

\* the counter that stays where it is after a dispatch
NextTruckNumberSame(truckNumber) == truckNumber

\* nextTruckNumber++
NextTruckNumber(truckNumber) == truckNumber + 1

dispatchTruck(st, pathId, t, cs) ==
    IF st.config = NoConfig \/ ~st.isRunning THEN st
    ELSE LET geomInfo == st.config.pathGeometries[pathId]
             totalNeeded == (st.config.targetVolume + st.config.volumePerTruck - 1)
                            \div st.config.volumePerTruck
             totalDispatched == st.nextTruckNumber - 1
         IN  IF geomInfo = NoGeometry \/ Len(geomInfo.coordinates) = 0 THEN st
             ELSE IF totalDispatched >= totalNeeded THEN st
             ELSE LET coords == geomInfo.coordinates
                      truckId == CmxId(st.nextTruckNumber)
                      truck == [truckId |-> truckId, truckNumber |-> st.nextTruckNumber,
                                routeId |-> st.config.routeId, pathId |-> pathId,
                                status |-> "en-route",
                                currentPosition |-> <<RInt(coords[1][1]), RInt(coords[1][2])>>,
                                progressRatio |-> RZero, departureTime |-> t,
                                arrivalTime |-> NoDate, elapsedSeconds |-> 0,
                                totalDistance |-> calculateRouteDistance(coords),
                                currentSpeed |->
                                    getPathAverageSpeed(pathId, st.config.defaultSpeed, cs),
                                concreteVolume |-> st.config.volumePerTruck]
                  IN  [st EXCEPT
                         !.activeTrucks = MapSet(st.activeTrucks, truckId, truck),
                         !.nextTruckNumber = NextTruckNumber(st.nextTruckNumber),
                         !.nextDispatchTime =
                             <<t + (60 * 60) \div st.config.trucksPerHour>>]

\* the tick of the earlier revision (truckService.ts:163): no monotonicity guard
TickProgressNoGuard(progressRatio, newProgress) == newProgress

\* truck.progressRatio = Math.max(truck.progressRatio, newProgress)
TickProgress(progressRatio, newProgress) == RMax(progressRatio, newProgress)

\* a tick that computes the distance covered before it counts its own step
TickElapsedBefore(elapsedSeconds, dtSeconds) == elapsedSeconds

\* truck.elapsedSeconds += dtSeconds, and what the tick reads of it from then on
TickElapsed(elapsedSeconds, dtSeconds) == elapsedSeconds + dtSeconds

\* the body of the loop of tickDelivery for the truck at position i of the map
\* a reading of the test that asks for more than the whole path
TickReachedBeyond(progressRatio) == RLt(ROne, progressRatio)

\* truck.progressRatio >= 1
TickReached(progressRatio) == RLe(ROne, progressRatio)

TickTruck(st, i, dtSeconds, t, cs) ==
    LET truck == st.activeTrucks[i]
        geomInfo == st.config.pathGeometries[truck.pathId]
    IN  IF truck.status # "en-route" THEN st
        ELSE IF geomInfo = NoGeometry \/ Len(geomInfo.coordinates) = 0 THEN st
        ELSE LET elapsed == TickElapsed(truck.elapsedSeconds, dtSeconds)
                 liveSpeed == getPathAverageSpeed(truck.pathId, st.config.defaultSpeed, cs)
                 distCovered == RDiv(RMul(liveSpeed, RInt(elapsed)), RInt(3600))
                 newProgress == RMin(RDiv(distCovered, RInt(truck.totalDistance)), ROne)
                 progress == TickProgress(truck.progressRatio, newProgress)
                 moved == [truck EXCEPT
                              !.elapsedSeconds = elapsed,
                              !.currentSpeed = liveSpeed,
                              !.progressRatio = progress,
                              !.currentPosition =
                                  interpolatePosition(geomInfo.coordinates, progress)]
                 st1 == [st EXCEPT !.activeTrucks[i] = moved]
             IN  IF TickReached(progress) THEN completeTruck(st1, truck.truckId, t) ELSE st1

RECURSIVE TickLoop(_, _, _, _, _)
TickLoop(st, i, dtSeconds, t, cs) ==
    IF i > Len(st.activeTrucks) THEN st
    ELSE TickLoop(TickTruck(st, i, dtSeconds, t, cs), i + 1, dtSeconds, t, cs)

tickDelivery(st, dtSeconds, t, cs) ==
    IF st.config = NoConfig \/ ~st.isRunning THEN st
    ELSE LET st1 == IF st.nextDispatchTime # NoDate /\ t >= st.nextDispatchTime[1]
                       /\ AUTO_DISPATCH_ENABLED
                    THEN dispatchTruck(st, "GAMMON_TM", t, cs)
                    ELSE st
         IN  TickLoop(st1, 1, dtSeconds, t, cs)

---------------------------------------------------------------------------
(* DB-trip reconciliation (truckService.ts:946-1138) *)

EmptyGeometry == [coordinates |-> <<>>, segmentCount |-> 0]

ensureConfigForDb(st, t) ==
    IF st.config = NoConfig
    THEN [st EXCEPT
            !.config = [routeId |-> 0, targetVolume |-> 600, volumePerTruck |-> 8,
                        trucksPerHour |-> 12, startTime |-> t, defaultSpeed |-> 40,
                        pathGeometries |-> [GAMMON_TM |-> EmptyGeometry,
                                            HKC_TY |-> NoGeometry,
                                            FUTURE_PATH |-> NoGeometry]],
            !.isRunning = TRUE]
    ELSE st

TripTruckId(tripId) == <<"TRIP", tripId>>

\* a running total that leaves out the arriving truck's own load
DbCumulativeVolumeBefore(log, concreteVolume) == SumVolume(log)

\* deliveryLog.reduce((s, r) => s + r.concreteVolume, 0) + truck.concreteVolume
DbCumulativeVolume(log, concreteVolume) == SumVolume(log) + concreteVolume

\* a completion that deletes the truck and forgets to delete the mapping entry
DeleteTruckOnly(st, tripId, truckId) ==
    [st EXCEPT !.activeTrucks = MapDelete(st.activeTrucks, truckId)]

\* activeTrucks.delete(truckId); tripToTruckId.delete(tripId)
DeleteTripTruck(st, tripId, truckId) ==
    [st EXCEPT !.activeTrucks = MapDelete(st.activeTrucks, truckId),
               !.tripToTruckId[tripId] = NoId]

completeTruckFromDb(st, tripId, arrivalTime) ==
    LET truckId == st.tripToTruckId[tripId]
    IN  IF truckId = NoId THEN st
        ELSE IF ~MapHas(st.activeTrucks, truckId) \/ st.config = NoConfig THEN st
        ELSE LET truck == MapGet(st.activeTrucks, truckId)
                 hourWindow == IF HourWindowOf(arrivalTime, st.config.startTime) > 0
                               THEN HourWindowOf(arrivalTime, st.config.startTime) ELSE 0
                 cumulativeVol == DbCumulativeVolume(st.deliveryLog, truck.concreteVolume)
                 st1 == [st EXCEPT
                    !.deliveryLog = Append(st.deliveryLog,
                        [truckId |-> truck.truckId, truckNumber |-> truck.truckNumber,
                         routeId |-> truck.routeId, departureTime |-> truck.departureTime,
                         arrivalTime |-> arrivalTime,
                         travelTimeSeconds |-> truck.elapsedSeconds,
                         concreteVolume |-> truck.concreteVolume,
                         cumulativeVolume |-> cumulativeVol, hourWindow |-> hourWindow])]
             IN  DeleteTripTruck(st1, tripId, truckId)

\* hydration that overwrites the stored ratio with the one it computed
HydrateProgressNoGuard(existingRatio, progressRatio) == progressRatio

\* existing.progressRatio = Math.max(existing.progressRatio, progressRatio)
HydrateProgress(existingRatio, progressRatio) == RMax(existingRatio, progressRatio)

\* the branch of addTruckFromTrip for a trip whose truck is in the active map
UpdateExistingTruck(st, existingId, base, progressRatio) ==
    LET existing == MapGet(st.activeTrucks, existingId)
        progress == HydrateProgress(existing.progressRatio, progressRatio)
    IN  [st EXCEPT !.activeTrucks =
            MapSet(st.activeTrucks, existingId,
                   [existing EXCEPT
                       !.progressRatio = progress,
                       !.currentPosition = interpolatePosition(base.coordinates, progress)])]

\* the truck addTruckFromTrip makes for a trip
NewTripTruck(st, trip, base, totalDist, speed, elapsedSeconds, progressRatio, t) ==
    LET arrived == RLe(ROne, progressRatio)
    IN  [truckId |-> TripTruckId(trip.id), truckNumber |-> st.nextTruckNumber + 1,
         routeId |-> st.config.routeId, pathId |-> "GAMMON_TM",
         status |-> IF arrived THEN "arrived" ELSE "en-route",
         currentPosition |-> interpolatePosition(base.coordinates, progressRatio),
         progressRatio |-> progressRatio,
         departureTime |-> trip.actual_start_at[1],
         arrivalTime |-> IF arrived THEN <<t>> ELSE NoDate,
         elapsedSeconds |-> elapsedSeconds, totalDistance |-> totalDist,
         currentSpeed |-> RInt(speed),
         concreteVolume |-> st.config.volumePerTruck]

\* the branch of addTruckFromTrip that creates the truck of a trip
CreateTripTruck(st, trip, base, totalDist, speed, elapsedSeconds, progressRatio, t) ==
    LET truck == NewTripTruck(st, trip, base, totalDist, speed, elapsedSeconds,
                              progressRatio, t)
        st1 == [st EXCEPT !.nextTruckNumber = st.nextTruckNumber + 1,
                          !.activeTrucks = MapSet(st.activeTrucks, truck.truckId, truck),
                          !.tripToTruckId[trip.id] = truck.truckId]
    IN  IF truck.status = "arrived" THEN completeTruckFromDb(st1, trip.id, t) ELSE st1

\* hydration that never recognises the truck it made for a trip
HasActiveTruckNever(st, existingId) == FALSE

\* existingId && activeTrucks.has(existingId)
HasActiveTruck(st, existingId) == existingId # NoId /\ MapHas(st.activeTrucks, existingId)

\* hydration that takes a mapping without a truck for a trip it has not seen
IsStaleMappingNever(st, existingId) == FALSE

\* existingId && !activeTrucks.has(existingId)
IsStaleMapping(st, existingId) == existingId # NoId /\ ~MapHas(st.activeTrucks, existingId)

addTruckFromTrip(st, trip, totalDist, speedKmh, t) ==
    IF st.config = NoConfig THEN st
    ELSE IF BaseGeometry(st.config) = NoGeometry THEN st
    ELSE IF trip.actual_start_at = NoDate THEN st
    ELSE LET base == BaseGeometry(st.config)
             startTime == trip.actual_start_at[1]
             speed == CapSpeed(speedKmh)
             travelTimeSeconds == RMul(Rat(totalDist, speed), RInt(3600))
             elapsedSeconds == IF t - startTime > 0 THEN t - startTime ELSE 0
             progressRatio == RMin(RDiv(RInt(elapsedSeconds), travelTimeSeconds), ROne)
             existingId == st.tripToTruckId[trip.id]
         IN  IF HasActiveTruck(st, existingId)
             THEN UpdateExistingTruck(st, existingId, base, progressRatio)
             ELSE IF IsStaleMapping(st, existingId)
             THEN st
             ELSE CreateTripTruck(st, trip, base, totalDist, speed, elapsedSeconds,
                                  progressRatio, t)

\* the null addTruckFromTrip returns
NoTruck == [absent |-> TRUE]

\* the value addTruckFromTrip returns: the trip's truck, or null
addTruckFromTripResult(st, trip, totalDist, speedKmh, t) ==
    IF st.config = NoConfig THEN NoTruck
    ELSE IF BaseGeometry(st.config) = NoGeometry THEN NoTruck
    ELSE IF trip.actual_start_at = NoDate THEN NoTruck
    ELSE LET base == BaseGeometry(st.config)
             startTime == trip.actual_start_at[1]
             speed == CapSpeed(speedKmh)
             travelTimeSeconds == RMul(Rat(totalDist, speed), RInt(3600))
             elapsedSeconds == IF t - startTime > 0 THEN t - startTime ELSE 0
             progressRatio == RMin(RDiv(RInt(elapsedSeconds), travelTimeSeconds), ROne)
             existingId == st.tripToTruckId[trip.id]
         IN  IF HasActiveTruck(st, existingId)
             THEN MapGet(UpdateExistingTruck(st, existingId, base, progressRatio).activeTrucks,
                         existingId)
             ELSE IF IsStaleMapping(st, existingId)
             THEN NoTruck
             ELSE NewTripTruck(st, trip, base, totalDist, speed, elapsedSeconds,
                               progressRatio, t)

\* a loop that hydrates the rows of every status
IsInProgressOrNot(trip) == TRUE

\* trip.status !== 'in_progress' is what the loop skips
IsInProgress(trip) == trip.status = "in_progress"

RECURSIVE HydrateLoop(_, _, _, _, _)
HydrateLoop(st, trips, totalDist, defaultSpeedKmh, t) ==
    IF Len(trips) = 0 THEN st
    ELSE LET trip == Head(trips)
             st1 == IF ~IsInProgress(trip) THEN st
                    ELSE addTruckFromTrip(st, trip, totalDist, defaultSpeedKmh, t)
         IN  HydrateLoop(st1, Tail(trips), totalDist, defaultSpeedKmh, t)

hydrateFromTrips(st, trips, defaultSpeedKmh, t) ==
    LET st1 == ensureConfigForDb(st, t)
        base == BaseGeometry(st1.config)
    IN  IF base = NoGeometry THEN st1
        ELSE IF calculateRouteDistance(base.coordinates) <= 0 THEN st1
        ELSE HydrateLoop(st1, trips, calculateRouteDistance(base.coordinates),
                         defaultSpeedKmh, t)

\* a prune that also strikes the pruned trip's records from the delivery log
PruneTripWithRecords(st, tripId, activeTripIds) ==
    IF st.tripToTruckId[tripId] = NoId \/ tripId \in activeTripIds THEN st
    ELSE [st EXCEPT !.activeTrucks = MapDelete(st.activeTrucks, st.tripToTruckId[tripId]),
                    !.tripToTruckId[tripId] = NoId,
                    !.deliveryLog = SelectSeq(st.deliveryLog,
                                        LAMBDA r : r.truckId # st.tripToTruckId[tripId])]

\* a prune that does not look at the set of active trips
PruneTripAlways(st, tripId, activeTripIds) ==
    IF st.tripToTruckId[tripId] = NoId THEN st
    ELSE [st EXCEPT !.activeTrucks = MapDelete(st.activeTrucks, st.tripToTruckId[tripId]),
                    !.tripToTruckId[tripId] = NoId]

\* a prune that passes over the mapping entries whose truck is already gone
PruneTripWithTruck(st, tripId, activeTripIds) ==
    IF st.tripToTruckId[tripId] = NoId \/ tripId \in activeTripIds
       \/ ~MapHas(st.activeTrucks, st.tripToTruckId[tripId]) THEN st
    ELSE [st EXCEPT !.activeTrucks = MapDelete(st.activeTrucks, st.tripToTruckId[tripId]),
                    !.tripToTruckId[tripId] = NoId]

\* the body of the loop of pruneInactiveTrips for one entry of tripToTruckId
PruneTrip(st, tripId, activeTripIds) ==
    IF st.tripToTruckId[tripId] = NoId \/ tripId \in activeTripIds THEN st
    ELSE [st EXCEPT !.activeTrucks = MapDelete(st.activeTrucks, st.tripToTruckId[tripId]),
                    !.tripToTruckId[tripId] = NoId]

RECURSIVE PruneLoop(_, _, _)
PruneLoop(st, todo, activeTripIds) ==
    IF todo = {} THEN st
    ELSE LET tripId == CHOOSE x \in todo : TRUE
         IN  PruneLoop(PruneTrip(st, tripId, activeTripIds), todo \ {tripId}, activeTripIds)

pruneInactiveTrips(st, activeTripIds) == PruneLoop(st, TripIds, activeTripIds)

clearActiveTrucks(st) ==
    [st EXCEPT !.activeTrucks = <<>>, !.tripToTruckId = [x \in TripIds |-> NoId]]

---------------------------------------------------------------------------
(* Session control (truckService.ts:571-615, 930-943) *)

startDeliverySession(st, sessionConfig, pathGeometries, t, cs) ==
    LET st1 == [st EXCEPT
                   !.activeTrucks = <<>>,
                   !.deliveryLog = <<>>,
                   !.nextTruckNumber = 1,
                   !.isRunning = TRUE,
                   !.config = [routeId |-> sessionConfig.routeId,
                               targetVolume |-> sessionConfig.targetVolume,
                               volumePerTruck |-> sessionConfig.volumePerTruck,
                               trucksPerHour |-> sessionConfig.trucksPerHour,
                               startTime |-> sessionConfig.startTime,
                               defaultSpeed |-> sessionConfig.defaultSpeed,
                               pathGeometries |-> pathGeometries],
                   !.nextDispatchTime = <<sessionConfig.startTime>>]
    IN  IF AUTO_DISPATCH_ENABLED THEN dispatchTruck(st1, "GAMMON_TM", t, cs) ELSE st1

stopDelivery(st) == [st EXCEPT !.isRunning = FALSE]

resetDelivery(st) ==
    [st EXCEPT !.activeTrucks = <<>>, !.deliveryLog = <<>>, !.nextTruckNumber = 1,
               !.nextDispatchTime = NoDate, !.config = NoConfig, !.isRunning = FALSE]

---------------------------------------------------------------------------
(* Inputs of the operations *)

ClockStep == 15 * 60
HydrateSpeeds == {40}
SessionStarts == {0, 4 * ClockStep}

\* the speed the traffic feed reports at time t: free flow, then congestion, in turn
FeedSpeed(t) == IF (t \div ClockStep) % 2 = 0 THEN 80 ELSE 20

RECURSIVE SegmentsOf(_, _)
\* the feed's segments for a set of ids, in ascending order of id, all at one speed
SegmentsOf(ids, speed) ==
    IF ids = {} THEN <<>>
    ELSE LET id == CHOOSE x \in ids : \A y \in ids : x <= y
         IN  <<[segmentId |-> id, speed |-> speed]>> \o SegmentsOf(ids \ {id}, speed)

SessionConfigs ==
    {[routeId |-> 0, targetVolume |-> 16, volumePerTruck |-> 8, trucksPerHour |-> 2,
      startTime |-> s, defaultSpeed |-> 40] : s \in SessionStarts}

PathGeometryChoices ==
    {[GAMMON_TM |-> GammonGeometry, HKC_TY |-> HkcGeometry, FUTURE_PATH |-> NoGeometry]}

\* rows of the trips table as syncTrucksFromDb reads them (index.ts:1197-1216):
\* today's in-progress trips, started at midnight of the model's clock
DbTrip(id) == [id |-> id, status |-> "in_progress", actual_start_at |-> <<0>>]

\* the trip lists handed to hydrateFromTrips, each id at most once
TripLists == {<<>>, <<DbTrip("a")>>, <<DbTrip("b")>>, <<DbTrip("a"), DbTrip("b")>>}

\* the stitcher before it has been called, and a call without an anchor
NotStitched == [pending |-> TRUE]
NoStart == <<>>

---------------------------------------------------------------------------
(* The state machine *)

Bounded(st) ==
    /\ Len(st.deliveryLog) <= MaxLog
    /\ st.nextTruckNumber <= MaxTruckNumber

\* the module state of the engine after a call
ApplyEngine(st) ==
    /\ config' = st.config
    /\ activeTrucks' = st.activeTrucks
    /\ deliveryLog' = st.deliveryLog
    /\ nextTruckNumber' = st.nextTruckNumber
    /\ nextDispatchTime' = st.nextDispatchTime
    /\ isRunning' = st.isRunning
    /\ tripToTruckId' = st.tripToTruckId

Apply(st) ==
    /\ ApplyEngine(st)
    /\ UNCHANGED <<routeGeometry, stitchVars, legacyVars, asyncVars>>

\* the engine and the traffic cache after the modules are loaded
InitEngine ==
    /\ now = 0
    /\ corridors = [r \in 1..5 |-> NoSample]
    /\ config = NoConfig
    /\ activeTrucks = <<>>
    /\ deliveryLog = <<>>
    /\ nextTruckNumber = 1
    /\ nextDispatchTime = NoDate
    /\ isRunning = FALSE
    /\ tripToTruckId = [x \in TripIds |-> NoId]
    /\ routeGeometry = NoGeometry

\* the stitcher not called
InitStitcher ==
    /\ stitchRouteIds = <<>>
    /\ stitchStart = NoStart
    /\ stitchedPath = NotStitched

\* the legacy simulation after the module is loaded
InitLegacy ==
    /\ trucks = <<>>
    /\ deliveryRecords = <<>>

\* a trip that is not in the trips table
NoRow == [status |-> "absent", actual_start_at |-> NoDate]

\* the server started: its timers installed, no request awaited, and no trip of today
\* in the table
InitAsync ==
    /\ trafficFetches = <<>>
    /\ tripsTable = [x \in TripIds |-> NoRow]
    /\ syncCycles = <<>>
    /\ startupPhase = "done"

Init == InitEngine /\ InitStitcher /\ InitLegacy /\ InitAsync

\* what the traffic feed answers at time t: an HTTP error, an exception of the request
\* or of the XML parser, a document without segments, or the segments of TrafficIds,
\* led by one the parser could make no id of
FeedResponses(t) ==
    {[kind |-> k, segments |-> <<>>] : k \in {"http-error", "exception", "parsed"}}
        \cup {[kind |-> "parsed",
               segments |-> <<[segmentId |-> 0, speed |-> FeedSpeed(t)]>>
                            \o SegmentsOf(TrafficIds, FeedSpeed(t))]}

\* a traffic-fetch cycle (index.ts:1160-1184): the fetch answers, and every segment of
\* its speed map that is a loaded corridor is classified and written to the cache
UpdateTrafficData ==
    /\ \E response \in FeedResponses(now) :
           corridors' = updateTrafficData(corridors, fetchTrafficSpeedMap(response), now)
    /\ UNCHANGED <<now, config, activeTrucks, deliveryLog, nextTruckNumber,
                   nextDispatchTime, isRunning, tripToTruckId, routeGeometry,
                   stitchVars, legacyVars, asyncVars>>

StartDeliverySession ==
    \E sessionConfig \in SessionConfigs, pathGeometries \in PathGeometryChoices :
        /\ Apply(startDeliverySession(St, sessionConfig, pathGeometries, now, corridors))
        /\ UNCHANGED <<now, corridors>>

StopDelivery ==
    /\ Apply(stopDelivery(St))
    /\ UNCHANGED <<now, corridors>>

ResetDelivery ==
    /\ Apply(resetDelivery(St))
    /\ UNCHANGED <<now, corridors>>

\* the one-second timer of the server (index.ts:1336-1340), seen every ClockStep
\* seconds: time has passed, and the engine is ticked when a session is running
TickTimer ==
    /\ now < MaxClockSteps * ClockStep
    /\ now' = now + ClockStep
    /\ LET st == IF isRunning THEN tickDelivery(St, ClockStep, now', corridors) ELSE St
       IN  Bounded(st) /\ Apply(st)
    /\ UNCHANGED corridors

RECURSIVE TripIdsOf(_)
\* inProgress.map(t => t.id)
TripIdsOf(trips) ==
    IF Len(trips) = 0 THEN {} ELSE {Head(trips).id} \cup TripIdsOf(Tail(trips))

\* the five-second timer of the server (index.ts:1342-1344) once the query has
\* answered: the in-progress rows are hydrated, then every other trip is pruned
SyncTrucksFromDb ==
    \E rows \in TripLists :
        /\ LET inProgress == SelectSeq(rows, LAMBDA r : r.status = "in_progress")
               hydrated == hydrateFromTrips(St, inProgress, 40, now)
               st == pruneInactiveTrips(hydrated, TripIdsOf(inProgress))
           IN  Bounded(st) /\ Apply(st)
        /\ UNCHANGED <<now, corridors>>

\* the functions the engine exports, called on their own
HydrateFromTrips ==
    \E trips \in TripLists, defaultSpeedKmh \in HydrateSpeeds :
        /\ LET st == hydrateFromTrips(St, trips, defaultSpeedKmh, now)
           IN  Bounded(st) /\ Apply(st)
        /\ UNCHANGED <<now, corridors>>

CompleteTruckFromDb ==
    \E tripId \in TripIds, arrivalTime \in {now} :
        /\ LET st == completeTruckFromDb(St, tripId, arrivalTime)
           IN  Bounded(st) /\ Apply(st)
        /\ UNCHANGED <<now, corridors>>

PruneInactiveTrips ==
    \E activeTripIds \in SUBSET TripIds :
        /\ Apply(pruneInactiveTrips(St, activeTripIds))
        /\ UNCHANGED <<now, corridors>>

ClearActiveTrucks ==
    /\ Apply(clearActiveTrucks(St))
    /\ UNCHANGED <<now, corridors>>

Next ==
    \/ UpdateTrafficData
    \/ StartDeliverySession
    \/ StopDelivery
    \/ ResetDelivery
    \/ TickTimer
    \/ SyncTrucksFromDb
    \/ HydrateFromTrips
    \/ CompleteTruckFromDb
    \/ PruneInactiveTrips
    \/ ClearActiveTrucks

Spec == Init /\ [][Next]_vars

---------------------------------------------------------------------------
(* The earlier revision of the engine (truckService.ts:1-335): one route     *)
(* geometry, dispatch on every start and on the dispatch cadence, the        *)
(* average speed taken over the whole traffic cache, lateness per truck.     *)
(* It has no trip reconciliation: tripToTruckId stays empty.                 *)

MIXER_MAX_SPEED_V1 == 60

StV1 == [config |-> config, activeTrucks |-> activeTrucks, deliveryLog |-> deliveryLog,
         nextTruckNumber |-> nextTruckNumber, nextDispatchTime |-> nextDispatchTime,
         isRunning |-> isRunning, routeGeometry |-> routeGeometry]

RECURSIVE SpeedSumsV1(_, _)
\* <<totalSpeed, count>> of the loop over the keys of the traffic cache
SpeedSumsV1(cs, r) ==
    IF r = 0 THEN <<0, 0>>
    ELSE LET rest == SpeedSumsV1(cs, r - 1)
             data == cs[r]
         IN  IF data # NoSample /\ data.speed > 0
             THEN <<rest[1] + (IF data.speed < MIXER_MAX_SPEED_V1
                               THEN data.speed ELSE MIXER_MAX_SPEED_V1), rest[2] + 1>>
             ELSE rest

getAverageProjectSpeed(defaultSpeed, cs) ==
    LET sums == SpeedSumsV1(cs, Len(cs))
    IN  IF sums[2] > 0 THEN Rat(sums[1], sums[2]) ELSE RInt(defaultSpeed)

\* Math.ceil(config.targetVolume / config.volumePerTruck)
TotalNeededV1(cfg) == (cfg.targetVolume + cfg.volumePerTruck - 1) \div cfg.volumePerTruck

\* (60 / config.trucksPerHour) * 60 seconds
IntervalSecondsV1(cfg) == Rat(60 * 60, cfg.trucksPerHour)

getBaselineTravelTimeV1(st) ==
    IF st.config = NoConfig \/ st.routeGeometry = NoGeometry THEN RInt(1800)
    ELSE RMul(Rat(calculateRouteDistance(st.routeGeometry.coordinates),
                  st.config.defaultSpeed), RInt(3600))

completeTruckV1(st, truckId, t) ==
    IF ~MapHas(st.activeTrucks, truckId) \/ st.config = NoConfig THEN st
    ELSE LET truck == MapGet(st.activeTrucks, truckId)
             plannedArrival ==
                 RAdd(RAdd(RInt(st.config.startTime),
                           RMul(RInt(truck.truckNumber - 1), IntervalSecondsV1(st.config))),
                      getBaselineTravelTimeV1(st))
             isLate == RLt(plannedArrival, RInt(t))
             arrived == [truck EXCEPT !.status = "arrived", !.arrivalTime = <<t>>,
                                      !.progressRatio = ROne, !.isLate = isLate]
             cumulativeVol == SumVolume(st.deliveryLog) + truck.concreteVolume
         IN  [st EXCEPT
                !.activeTrucks = MapSet(st.activeTrucks, truckId, arrived),
                !.deliveryLog = Append(st.deliveryLog,
                    [truckId |-> truckId, truckNumber |-> truck.truckNumber,
                     routeId |-> truck.routeId, departureTime |-> truck.departureTime,
                     arrivalTime |-> t, plannedArrival |-> plannedArrival,
                     travelTimeSeconds |-> truck.elapsedSeconds,
                     concreteVolume |-> truck.concreteVolume,
                     wasLate |-> isLate, cumulativeVolume |-> cumulativeVol])]

\* a dispatch that does not look at the number of trucks already dispatched
AtDispatchCapNever(st) == FALSE

\* totalDispatched >= totalNeeded
AtDispatchCapV1(st) == st.nextTruckNumber - 1 >= TotalNeededV1(st.config)

dispatchTruckV1(st, t, cs) ==
    IF st.config = NoConfig \/ st.routeGeometry = NoGeometry \/ ~st.isRunning THEN st
    ELSE IF AtDispatchCapV1(st) THEN st
    ELSE LET coords == st.routeGeometry.coordinates
             truckId == CmxId(st.nextTruckNumber)
             truck == [truckId |-> truckId, truckNumber |-> st.nextTruckNumber,
                       routeId |-> st.config.routeId, status |-> "en-route",
                       currentPosition |->
                           IF Len(coords) > 0
                           THEN <<RInt(coords[1][1]), RInt(coords[1][2])>>
                           ELSE <<RZero, RZero>>,
                       progressRatio |-> RZero, departureTime |-> t,
                       arrivalTime |-> NoDate, elapsedSeconds |-> 0,
                       totalDistance |-> calculateRouteDistance(coords),
                       currentSpeed |-> getAverageProjectSpeed(st.config.defaultSpeed, cs),
                       concreteVolume |-> st.config.volumePerTruck, isLate |-> FALSE]
         IN  [st EXCEPT
                !.activeTrucks = MapSet(st.activeTrucks, truckId, truck),
                !.nextTruckNumber = st.nextTruckNumber + 1,
                !.nextDispatchTime = <<t + (60 * 60) \div st.config.trucksPerHour>>]

\* the body of the loop of the earlier tickDelivery for the truck at position i
TickTruckV1(st, i, dtSeconds, t, cs) ==
    LET truck == st.activeTrucks[i]
    IN  IF truck.status # "en-route" THEN st
        ELSE LET elapsed == truck.elapsedSeconds + dtSeconds
                 liveSpeed == getAverageProjectSpeed(st.config.defaultSpeed, cs)
                 distCovered == RDiv(RMul(liveSpeed, RInt(elapsed)), RInt(3600))
                 progress == RMin(RDiv(distCovered, RInt(truck.totalDistance)), ROne)
                 moved == [truck EXCEPT
                              !.elapsedSeconds = elapsed,
                              !.currentSpeed = liveSpeed,
                              !.progressRatio = progress,
                              !.currentPosition =
                                  interpolatePosition(st.routeGeometry.coordinates, progress)]
                 st1 == [st EXCEPT !.activeTrucks[i] = moved]
             IN  IF RLe(ROne, progress) THEN completeTruckV1(st1, truck.truckId, t) ELSE st1

RECURSIVE TickLoopV1(_, _, _, _, _)
TickLoopV1(st, i, dtSeconds, t, cs) ==
    IF i > Len(st.activeTrucks) THEN st
    ELSE TickLoopV1(TickTruckV1(st, i, dtSeconds, t, cs), i + 1, dtSeconds, t, cs)

tickDeliveryV1(st, dtSeconds, t, cs) ==
    IF st.config = NoConfig \/ st.routeGeometry = NoGeometry \/ ~st.isRunning THEN st
    ELSE LET st1 == IF st.nextDispatchTime # NoDate /\ t >= st.nextDispatchTime[1]
                    THEN dispatchTruckV1(st, t, cs)
                    ELSE st
         IN  TickLoopV1(st1, 1, dtSeconds, t, cs)

startDeliverySessionV1(st, sessionConfig, geometry, t, cs) ==
    LET st1 == [st EXCEPT
                   !.activeTrucks = <<>>,
                   !.deliveryLog = <<>>,
                   !.nextTruckNumber = 1,
                   !.isRunning = TRUE,
                   !.config = sessionConfig,
                   !.routeGeometry = geometry,
                   !.nextDispatchTime = <<sessionConfig.startTime>>]
    IN  dispatchTruckV1(st1, t, cs)

resetDeliveryV1(st) ==
    [st EXCEPT !.activeTrucks = <<>>, !.deliveryLog = <<>>, !.nextTruckNumber = 1,
               !.nextDispatchTime = NoDate, !.config = NoConfig,
               !.routeGeometry = NoGeometry, !.isRunning = FALSE]

\* POST /api/delivery/start of the earlier server (index.ts:387-415): the request's
\* volumes and rate, the stitched route, the session starting now
SessionConfigsV1(t) ==
    {[routeId |-> 0, targetVolume |-> v, volumePerTruck |-> 8, trucksPerHour |-> r,
      startTime |-> t, defaultSpeed |-> 40] : v \in {8, 12}, r \in {2, 4}}

RouteGeometryV1 == [coordinates |-> GammonGeometry.coordinates]

ApplyV1(st) ==
    /\ config' = st.config
    /\ activeTrucks' = st.activeTrucks
    /\ deliveryLog' = st.deliveryLog
    /\ nextTruckNumber' = st.nextTruckNumber
    /\ nextDispatchTime' = st.nextDispatchTime
    /\ isRunning' = st.isRunning
    /\ routeGeometry' = st.routeGeometry
    /\ UNCHANGED <<tripToTruckId, stitchVars, legacyVars, asyncVars>>

StartDeliverySessionV1 ==
    \E sessionConfig \in SessionConfigsV1(now) :
        /\ ApplyV1(startDeliverySessionV1(StV1, sessionConfig, RouteGeometryV1, now,
                                          corridors))
        /\ UNCHANGED <<now, corridors>>

StopDeliveryV1 ==
    /\ ApplyV1(stopDelivery(StV1))
    /\ UNCHANGED <<now, corridors>>

ResetDeliveryV1 ==
    /\ ApplyV1(resetDeliveryV1(StV1))
    /\ UNCHANGED <<now, corridors>>

\* the one-second timer of the earlier server, seen every ClockStep seconds
TickTimerV1 ==
    /\ now < MaxClockSteps * ClockStep
    /\ now' = now + ClockStep
    /\ LET st == IF isRunning THEN tickDeliveryV1(StV1, ClockStep, now', corridors)
                 ELSE StV1
       IN  Bounded(st) /\ ApplyV1(st)
    /\ UNCHANGED corridors

NextV1 ==
    \/ UpdateTrafficData
    \/ StartDeliverySessionV1
    \/ StopDeliveryV1
    \/ ResetDeliveryV1
    \/ TickTimerV1

SpecV1 == Init /\ [][NextV1]_vars

---------------------------------------------------------------------------
(* Path stitcher (services/pathStitcher, src/unnamed/part_002; its copy in  *)
(* the server, index.ts:1070-1155).  Coordinates are <<lng, lat>> on the    *)
(* integer grid, so two coordinates are nearer than 1e-10 exactly when      *)
(* their squared distance is below 1.                                       *)

segDist(a, b) == (a[1] - b[1]) * (a[1] - b[1]) + (a[2] - b[2]) * (a[2] - b[2])

\* the plant the stitching starts from when no anchor is handed in
GAMMON_START == <<0, 0>>

LineString(coords) == [geometry |-> [type |-> "LineString", coordinates |-> coords]]

\* the corridor collection the stitcher is run on: lines that join head to tail (1, 2),
\* one drawn against the direction of travel (3), no corridor (4), a line of one
\* coordinate (5), a MultiLineString of two lines (6), a geometry that is no line (7),
\* a corridor without geometry (8), a line apart from the others (9) and a line whose
\* two ends are equally far from the origin (10)
StitchCorridors ==
    [r \in 1..10 |->
        CASE r = 1 -> LineString(<<<<0, 0>>, <<1, 0>>>>)
          [] r = 2 -> LineString(<<<<1, 0>>, <<2, 0>>>>)
          [] r = 3 -> LineString(<<<<3, 0>>, <<2, 1>>, <<2, 0>>>>)
          [] r = 5 -> LineString(<<<<5, 5>>>>)
          [] r = 6 -> [geometry |-> [type |-> "MultiLineString",
                                     coordinates |-> <<<<<<2, 0>>, <<2, 2>>>>,
                                                       <<<<2, 2>>, <<2, 3>>>>>>]]
          [] r = 7 -> [geometry |-> [type |-> "Point", coordinates |-> <<7, 7>>]]
          [] r = 8 -> [geometry |-> NoGeometry]
          [] r = 9 -> LineString(<<<<4, 4>>, <<4, 5>>>>)
          [] r = 10 -> LineString(<<<<0, 1>>, <<1, 1>>, <<1, 0>>>>)
          [] OTHER -> NoCorridor]

RECURSIVE Flatten(_)
\* the coordinates of the lines of a MultiLineString, one after the other
Flatten(lines) == IF Len(lines) = 0 THEN <<>> ELSE Head(lines) \o Flatten(Tail(lines))

CorridorCoords(corridor) ==
    IF corridor.geometry.type = "MultiLineString" THEN Flatten(corridor.geometry.coordinates)
    ELSE IF corridor.geometry.type = "LineString" THEN corridor.geometry.coordinates
    ELSE <<>>

\* a stitcher that takes a single coordinate for a segment
IsUsableFromOne(coords) == Len(coords) >= 1

\* coords.length >= 2
IsUsable(coords) == Len(coords) >= 2

RECURSIVE UsableSegments(_, _)
\* the first loop of stitchPath: the segments of the corridors that have one
UsableSegments(allCorridors, routeIds) ==
    IF Len(routeIds) = 0 THEN <<>>
    ELSE LET routeId == Head(routeIds)
             corridor == IF routeId \in DOMAIN allCorridors THEN allCorridors[routeId]
                         ELSE NoCorridor
             rest == UsableSegments(allCorridors, Tail(routeIds))
         IN  IF corridor = NoCorridor THEN rest
             ELSE IF corridor.geometry = NoGeometry THEN rest
             ELSE IF IsUsable(CorridorCoords(corridor))
             THEN <<[routeId |-> routeId, coords |-> CorridorCoords(corridor)]>> \o rest
             ELSE rest

\* bestIdx = -1, bestDist = Infinity
NoBest == [idx |-> 0, dist |-> <<>>, reverse |-> FALSE]

\* a comparison that lets a later candidate at the same distance win
NearerOrEqual(d, bestDist) == bestDist = <<>> \/ d <= bestDist[1]

\* d < bestDist
Nearer(d, bestDist) == bestDist = <<>> \/ d < bestDist[1]

RECURSIVE BestFrom(_, _, _, _, _)
\* the inner loop of stitchPath from segment i on
BestFrom(segments, used, cursor, i, best) ==
    IF i > Len(segments) THEN best
    ELSE IF i \in used THEN BestFrom(segments, used, cursor, i + 1, best)
    ELSE LET seg == segments[i]
             dFirst == segDist(cursor, seg.coords[1])
             dLast == segDist(cursor, seg.coords[Len(seg.coords)])
             b1 == IF Nearer(dFirst, best.dist)
                   THEN [idx |-> i, dist |-> <<dFirst>>, reverse |-> FALSE] ELSE best
             b2 == IF Nearer(dLast, b1.dist)
                   THEN [idx |-> i, dist |-> <<dLast>>, reverse |-> TRUE] ELSE b1
         IN  BestFrom(segments, used, cursor, i + 1, b2)

\* coords.slice().reverse()
Reverse(coords) == [i \in 1..Len(coords) |-> coords[Len(coords) + 1 - i]]

\* a stitcher that copies every segment whole
JunctionStartKeep(lastAdded, firstCoord) == 1

\* startIdx, counted from 1: the leading coordinate is left out when it is the last one added
JunctionStart(lastAdded, firstCoord) == IF segDist(lastAdded, firstCoord) < 1 THEN 2 ELSE 1

\* the state of the outer loop before its first step
StitchStart(start) == [used |-> {}, orderedCoords |-> <<>>, cursor |-> start]

\* the rest of one step of the outer loop, once the best segment is found
AppendBest(segments, loop, best) ==
    LET matched == segments[best.idx]
        segCoords == IF best.reverse THEN Reverse(matched.coords) ELSE matched.coords
        ordered ==
            IF Len(loop.orderedCoords) > 0
            THEN loop.orderedCoords
                 \o SubSeq(segCoords,
                           JunctionStart(loop.orderedCoords[Len(loop.orderedCoords)],
                                         segCoords[1]),
                           Len(segCoords))
            ELSE segCoords
    IN  [used |-> loop.used \cup {best.idx}, orderedCoords |-> ordered,
         cursor |-> ordered[Len(ordered)]]

RECURSIVE StitchLoop(_, _, _)
\* the outer loop of stitchPath from step `step` on
StitchLoop(segments, loop, step) ==
    IF step >= Len(segments) THEN loop
    ELSE LET best == BestFrom(segments, loop.used, loop.cursor, 1, NoBest)
         IN  IF best.idx = 0 THEN loop
             ELSE StitchLoop(segments, AppendBest(segments, loop, best), step + 1)

\* null when no corridor has a segment
stitchPath(allCorridors, routeIds, start) ==
    LET segments == UsableSegments(allCorridors, routeIds)
    IN  IF Len(segments) = 0 THEN NoGeometry
        ELSE LET final == StitchLoop(segments,
                                     StitchStart(IF start = NoStart THEN GAMMON_START
                                                 ELSE start), 0)
             IN  [coordinates |-> final.orderedCoords,
                  segmentCount |-> Cardinality(final.used)]

\* the server's copy of the stitcher: the project's corridor ids, from the plant
stitchProjectRoutes(allCorridors, projectRouteIds) ==
    stitchPath(allCorridors, projectRouteIds, NoStart)

\* bound of the stitcher's inputs: the longest list of corridor ids
MaxRouteIds == 3

RECURSIVE RouteIdLists(_)
\* the lists of at most n corridor ids, repeats included
RouteIdLists(n) ==
    IF n = 0 THEN {<<>>}
    ELSE LET shorter == RouteIdLists(n - 1)
         IN  shorter \cup {Append(l, r) : l \in shorter, r \in 1..10}

StitchAnchors == {NoStart, <<0, 0>>, <<3, 0>>, <<2, 0>>}

\* a call of stitchPath about to be made: its arguments
InitStitch ==
    /\ InitEngine
    /\ InitLegacy
    /\ InitAsync
    /\ stitchRouteIds \in RouteIdLists(MaxRouteIds)
    /\ stitchStart \in StitchAnchors
    /\ stitchedPath = NotStitched

\* the call of stitchPath returns
StitchPath ==
    /\ stitchedPath = NotStitched
    /\ stitchedPath' = stitchPath(StitchCorridors, stitchRouteIds, stitchStart)
    /\ UNCHANGED <<stitchRouteIds, stitchStart, engineVars, legacyVars, asyncVars>>

\* the server stitching its route, at start-up or for a session request, returns
StitchProjectRoutes ==
    /\ stitchedPath = NotStitched
    /\ stitchStart = NoStart
    /\ stitchedPath' = stitchProjectRoutes(StitchCorridors, stitchRouteIds)
    /\ UNCHANGED <<stitchRouteIds, stitchStart, engineVars, legacyVars, asyncVars>>

NextStitch ==
    \/ StitchPath
    \/ StitchProjectRoutes

SpecStitch == InitStitch /\ [][NextStitch]_vars

---------------------------------------------------------------------------
(* Inputs the operations are checked against in every reachable state: wider *)
(* than the ones the state machine is driven with.                           *)

WideDts == {1, ClockStep, 2 * ClockStep, 4 * ClockStep}
WideSpeeds == {20, 40, 80}

WideRows(id) ==
    {[id |-> id, status |-> s, actual_start_at |-> a] :
        s \in {"planned", "in_progress", "completed"},
        a \in {NoDate, <<0>>, <<ClockStep>>}}

InProgressRows(id) ==
    {[id |-> id, status |-> "in_progress", actual_start_at |-> a] :
        a \in {<<0>>, <<ClockStep>>}}

WideTripLists ==
    {<<>>} \cup {<<x>> : x \in WideRows("a") \cup WideRows("b")}
           \cup {<<x, y>> : x \in InProgressRows("a"), y \in InProgressRows("b")}

IsDbTruck(truck) == truck.truckId[1] = "TRIP"
Trucks(m) == {m[i] : i \in 1..Len(m)}
DbTrucks(m) == {t \in Trucks(m) : IsDbTruck(t)}

\* no truck that is in the active map before and after has a smaller progressRatio after
NoRegress(before, after) ==
    \A truck \in Trucks(before.activeTrucks) :
        MapHas(after.activeTrucks, truck.truckId)
            => RLe(truck.progressRatio, MapGet(after.activeTrucks, truck.truckId).progressRatio)

\* what a tick computes afresh from a truck's own fields
FreshProgress(truck) ==
    RMin(RDiv(RDiv(RMul(truck.currentSpeed, RInt(truck.elapsedSeconds)), RInt(3600)),
              RInt(truck.totalDistance)), ROne)

\* P relates the current state to the state each exported mutator returns from it
AfterEveryCall(P(_, _)) ==
    /\ \A dt \in WideDts : P(St, tickDelivery(St, dt, now, corridors))
    /\ \A trips \in WideTripLists, speed \in WideSpeeds :
           P(St, hydrateFromTrips(St, trips, speed, now))
    /\ \A tripId \in TripIds : P(St, completeTruckFromDb(St, tripId, now))
    /\ \A ids \in SUBSET TripIds : P(St, pruneInactiveTrips(St, ids))
    /\ \A cfg \in SessionConfigs, geo \in PathGeometryChoices :
           P(St, startDeliverySession(St, cfg, geo, now, corridors))
    /\ P(St, stopDelivery(St))
    /\ P(St, resetDelivery(St))
    /\ P(St, clearActiveTrucks(St))

---------------------------------------------------------------------------
---------------------------------------------------------------------------
\* a truck that is ARRIVED before a call and still in the map after it is still ARRIVED
\* with progressRatio 1
StaysArrived(before, after) ==
    \A truck \in Trucks(before.activeTrucks) :
        (truck.status = "arrived" /\ MapHas(after.activeTrucks, truck.truckId))
            => LET later == MapGet(after.activeTrucks, truck.truckId)
               IN  later.status = "arrived" /\ later.progressRatio = ROne

(* C2: a truck of the active map that is ARRIVED has progressRatio exactly 1, *)
(* and whatever tick, hydrate, prune, completion or session call follows, it  *)
(* is either gone from the map or still ARRIVED with progressRatio 1: the     *)
(* status never goes back to EN_ROUTE, so it changes to ARRIVED at most once. *)
C2_ArrivedIsFinal ==
    /\ \A truck \in Trucks(activeTrucks) :
           truck.status = "arrived" => truck.progressRatio = ROne
    /\ AfterEveryCall(StaysArrived)

\* a truck a tick completed: ARRIVED, stamped, archived and still held in the active map
C2_Witness ==
    \E truck \in Trucks(activeTrucks) :
        /\ truck.status = "arrived"
        /\ truck.arrivalTime # NoDate
        /\ \E k \in 1..Len(deliveryLog) : deliveryLog[k].truckId = truck.truckId
---------------------------------------------------------------------------
(* C3: in every reachable state each delivery record's cumulativeVolume is   *)
(* the sum of concreteVolume over the records up to and including it, and    *)
(* cumulativeVolume does not decrease along the log, whichever of            *)
(* completeTruck and completeTruckFromDb appended the records.               *)
C3_CumulativeVolume ==
    /\ \A k \in 1..Len(deliveryLog) :
           deliveryLog[k].cumulativeVolume = SumVolume(SubSeq(deliveryLog, 1, k))
    /\ \A k \in 1..(Len(deliveryLog) - 1) :
           deliveryLog[k].cumulativeVolume <= deliveryLog[k + 1].cumulativeVolume

\* a log of two records: the first of a truck completeTruckFromDb archived and deleted
\* while it was under way, the second of a truck a tick completed and left in the map
C3_Witness ==
    /\ Len(deliveryLog) = 2
    /\ ~MapHas(activeTrucks, deliveryLog[1].truckId)
    /\ deliveryLog[1].travelTimeSeconds < deliveryLog[2].travelTimeSeconds
    /\ MapHas(activeTrucks, deliveryLog[2].truckId)
    /\ MapGet(activeTrucks, deliveryLog[2].truckId).status = "arrived"
---------------------------------------------------------------------------
(* C4: the delivery log of a session holds at most one record for a trip    *)
(* id: no two records of the log are of the same trip's truck.              *)
C4_OneRecordPerTrip ==
    \A j, k \in 1..Len(deliveryLog) :
        (j # k /\ deliveryLog[j].truckId[1] = "TRIP")
            => deliveryLog[j].truckId # deliveryLog[k].truckId

---------------------------------------------------------------------------
\* the trucks of the active map that are of the trip
TrucksOfTrip(st, tripId) ==
    {i \in 1..Len(st.activeTrucks) : st.activeTrucks[i].truckId = TripTruckId(tripId)}

---------------------------------------------------------------------------
(* C6: no hydrateFromTrips call returns leaving the truck of a trip it       *)
(* hydrated in the active map with progressRatio 1 and status EN_ROUTE.      *)
C6_HydrateArchivesAtOne ==
    \A trips \in WideTripLists, speed \in WideSpeeds :
        LET after == hydrateFromTrips(St, trips, speed, now)
        IN  \A k \in 1..Len(trips) :
                (trips[k].status = "in_progress"
                 /\ MapHas(after.activeTrucks, TripTruckId(trips[k].id)))
                    => LET truck == MapGet(after.activeTrucks, TripTruckId(trips[k].id))
                       IN  ~(truck.progressRatio = ROne /\ truck.status = "en-route")

---------------------------------------------------------------------------
(* C7: no reachable state has a trip-derived truck with status ARRIVED in    *)
(* the active map.                                                           *)
C7_NoArrivedDbTruckInMap ==
    \A truck \in DbTrucks(activeTrucks) : truck.status # "arrived"

---------------------------------------------------------------------------
(* C8: from any reachable state, completeTruckFromDb for a trip whose mapped *)
(* truck is in the active map appends exactly one record, of that truck,     *)
(* removes the truck from the map and the trip from the mapping, and leaves  *)
(* the other trucks and mapping entries alone; for a trip without a mapping, *)
(* or whose mapped truck is not in the map, it returns the state unchanged.  *)
C8_CompleteTruckFromDb ==
    \A tripId \in TripIds, arrivalTime \in {0, now, now + ClockStep} :
        LET truckId == tripToTruckId[tripId]
            after == completeTruckFromDb(St, tripId, arrivalTime)
        IN  IF truckId # NoId /\ MapHas(activeTrucks, truckId)
            THEN /\ Len(after.deliveryLog) = Len(deliveryLog) + 1
                 /\ SubSeq(after.deliveryLog, 1, Len(deliveryLog)) = deliveryLog
                 /\ after.deliveryLog[Len(after.deliveryLog)].truckId = truckId
                 /\ after.activeTrucks = MapDelete(activeTrucks, truckId)
                 /\ ~MapHas(after.activeTrucks, truckId)
                 /\ after.tripToTruckId = [tripToTruckId EXCEPT ![tripId] = NoId]
            ELSE after = St

\* trip a archived by completeTruckFromDb while under way (its record, no truck, no
\* mapping: the call would now change nothing), trip b with its mapped truck in the map
C8_Witness ==
    /\ \E k \in 1..Len(deliveryLog) :
           /\ deliveryLog[k].truckId = TripTruckId("a")
           /\ deliveryLog[k].travelTimeSeconds < 2 * ClockStep
    /\ tripToTruckId["a"] = NoId
    /\ ~MapHas(activeTrucks, TripTruckId("a"))
    /\ tripToTruckId["b"] # NoId
    /\ MapHas(activeTrucks, tripToTruckId["b"])

---------------------------------------------------------------------------
\* the session has a path to hydrate trips on
CanHydrate(st) ==
    /\ st.config # NoConfig
    /\ BaseGeometry(st.config) # NoGeometry
    /\ calculateRouteDistance(BaseGeometry(st.config).coordinates) > 0

(* C9: from any reachable state in which a trip is in the trip-to-truck      *)
(* mapping and its truck is not in the active map, hydrating the trip        *)
(* changes neither the active map, nor the delivery log, nor the mapping,    *)
(* nor the truck counter.                                                    *)
C9_StaleMappingSkipped ==
    \A tripId \in TripIds, speed \in WideSpeeds :
        \A row \in InProgressRows(tripId) :
            (tripToTruckId[tripId] # NoId /\ ~MapHas(activeTrucks, tripToTruckId[tripId]))
                => LET after == hydrateFromTrips(St, <<row>>, speed, now)
                   IN  /\ after.activeTrucks = activeTrucks
                       /\ after.deliveryLog = deliveryLog
                       /\ after.tripToTruckId = tripToTruckId
                       /\ after.nextTruckNumber = nextTruckNumber

\* a session that can hydrate, in which trip a is mapped and its truck is gone, so that
\* the hydration of trip a gets as far as the skip; trip b's truck was made in the meantime
C9_Witness ==
    /\ CanHydrate(St)
    /\ tripToTruckId["a"] # NoId
    /\ ~MapHas(activeTrucks, tripToTruckId["a"])
    /\ MapHas(activeTrucks, TripTruckId("b"))

---------------------------------------------------------------------------
(* C10: from any reachable state, pruneInactiveTrips([]) returns a state     *)
(* with no trip-derived truck in the active map and no entry in the          *)
(* trip-to-truck mapping.                                                    *)
C10_PruneAll ==
    LET after == pruneInactiveTrips(St, {})
    IN  /\ DbTrucks(after.activeTrucks) = {}
        /\ \A tripId \in TripIds : after.tripToTruckId[tripId] = NoId

\* one trip mapped with its truck in the map, the other mapped with its truck gone
C10_Witness ==
    \E x, y \in TripIds :
        /\ tripToTruckId[x] # NoId /\ MapHas(activeTrucks, tripToTruckId[x])
        /\ tripToTruckId[y] # NoId /\ ~MapHas(activeTrucks, tripToTruckId[y])
---------------------------------------------------------------------------
(* C11: from any reachable state and for any set of active trip ids,         *)
(* pruneInactiveTrips removes from the active map exactly the trip-derived   *)
(* trucks whose trip is not in the set and from the mapping exactly the      *)
(* entries of the trips not in the set; the other trucks (those of the       *)
(* trips in the set, and every truck that is not trip-derived) are kept as   *)
(* they are and in order, and the delivery log, the config, the truck        *)
(* counter, the next-dispatch time and the running flag are unchanged.       *)
C11_PruneFrame ==
    \A ids \in SUBSET TripIds :
        LET after == pruneInactiveTrips(St, ids)
        IN  /\ after.activeTrucks =
                   SelectSeq(activeTrucks,
                             LAMBDA truck : ~IsDbTruck(truck) \/ truck.truckId[2] \in ids)
            /\ after.tripToTruckId =
                   [t \in TripIds |-> IF t \in ids THEN tripToTruckId[t] ELSE NoId]
            /\ after.deliveryLog = deliveryLog
            /\ after.config = config
            /\ after.nextTruckNumber = nextTruckNumber
            /\ after.nextDispatchTime = nextDispatchTime
            /\ after.isRunning = isRunning

\* both trips mapped with their trucks in the map and a delivery already logged: a prune
\* with one of the trips in the set has a truck to remove, a truck to keep and a log to keep
C11_Witness ==
    /\ \A t \in TripIds : tripToTruckId[t] # NoId /\ MapHas(activeTrucks, tripToTruckId[t])
    /\ Len(deliveryLog) > 0
    /\ pruneInactiveTrips(St, {"a"}).activeTrucks # activeTrucks
    /\ pruneInactiveTrips(St, {"a"}).activeTrucks # <<>>
---------------------------------------------------------------------------
\* the trucks of the active map that a dispatch created
SyntheticTrucks(m) == {t \in Trucks(m) : t.truckId[1] = "CMX"}

(* C12: in every reachable state of a session of the dispatching revision,   *)
(* the number of trucks dispatched (the counter less one, and the synthetic  *)
(* trucks of the active map) is at most ceil(targetVolume / volumePerTruck); *)
(* and when that many have been dispatched, a dispatch, and a tick of any    *)
(* length whatever the next-dispatch time, leave the number of active        *)
(* trucks, the counter and the next-dispatch time unchanged.                 *)
C12_DispatchCap ==
    config # NoConfig =>
        /\ nextTruckNumber - 1 <= TotalNeededV1(config)
        /\ Cardinality(SyntheticTrucks(activeTrucks)) <= TotalNeededV1(config)
        /\ nextTruckNumber - 1 >= TotalNeededV1(config) =>
               /\ dispatchTruckV1(StV1, now, corridors) = StV1
               /\ \A dt \in WideDts, due \in {NoDate, <<0>>, <<now>>} :
                      LET after == tickDeliveryV1([StV1 EXCEPT !.nextDispatchTime = due],
                                                  dt, now, corridors)
                      IN  /\ Len(after.activeTrucks) = Len(activeTrucks)
                          /\ after.nextTruckNumber = nextTruckNumber
                          /\ after.nextDispatchTime = due

\* a running session that has dispatched all the trucks it needs, at an instant when
\* the next-dispatch time has come: the tick that led here asked for a dispatch
C12_Witness ==
    /\ config # NoConfig
    /\ isRunning
    /\ nextTruckNumber - 1 = TotalNeededV1(config)
    /\ Len(activeTrucks) = TotalNeededV1(config)
    /\ nextDispatchTime # NoDate
    /\ now >= nextDispatchTime[1]
---------------------------------------------------------------------------
\* session requests beyond the ones the state machine is driven with
WideSessionConfigs ==
    {[routeId |-> 0, targetVolume |-> v, volumePerTruck |-> 8, trucksPerHour |-> r,
      startTime |-> s, defaultSpeed |-> 40] :
        v \in {0, 8, 12}, r \in {2, 4}, s \in {0, now, 4 * ClockStep}}

WidePathGeometries ==
    PathGeometryChoices
        \cup {[GAMMON_TM |-> NoGeometry, HKC_TY |-> HkcGeometry, FUTURE_PATH |-> NoGeometry]}

\* the config startDeliverySession stores for a request
StoredConfig(cfg, geo) ==
    [routeId |-> cfg.routeId, targetVolume |-> cfg.targetVolume,
     volumePerTruck |-> cfg.volumePerTruck, trucksPerHour |-> cfg.trucksPerHour,
     startTime |-> cfg.startTime, defaultSpeed |-> cfg.defaultSpeed,
     pathGeometries |-> geo]

\* what every revision's startDeliverySession does before it comes to dispatching
StartsAfresh(after, cfg) ==
    /\ after.deliveryLog = <<>>
    /\ after.isRunning
    /\ after.nextTruckNumber = 1 + Len(after.activeTrucks)
    /\ Len(after.activeTrucks) = 0 => after.nextDispatchTime = <<cfg.startTime>>

\* exactly one active truck, EN_ROUTE at progress 0
OneTruckAtStart(after) ==
    /\ Len(after.activeTrucks) = 1
    /\ after.activeTrucks[1].status = "en-route"
    /\ after.activeTrucks[1].progressRatio = RZero

(* C13, as the code has it: startDeliverySession, called from any reachable   *)
(* state, empties the delivery log, sets the running flag, stores the        *)
(* config and resets the truck counter; the dispatch it attempts depends on  *)
(* the revision.  In the latest revision automatic dispatch is switched off: *)
(* the state right after the call has no active truck, the counter at 1 and  *)
(* the next-dispatch time at the configured start time, path geometry or     *)
(* not.  In the earlier revision the dispatch is unconditional: with a route *)
(* geometry and ceil(targetVolume / volumePerTruck) >= 1 the state right     *)
(* after has exactly one active truck, EN_ROUTE at progress 0, the counter   *)
(* at 2 and the next-dispatch time one dispatch interval after now.          *)
C13_StartDeliverySession ==
    \A cfg \in WideSessionConfigs :
        /\ \A geo \in WidePathGeometries :
               LET after == startDeliverySession(St, cfg, geo, now, corridors)
               IN  /\ StartsAfresh(after, cfg)
                   /\ after.config = StoredConfig(cfg, geo)
                   /\ after.tripToTruckId = tripToTruckId
                   /\ after.activeTrucks = <<>>
        /\ LET after == startDeliverySessionV1(StV1, cfg, RouteGeometryV1, now, corridors)
           IN  /\ StartsAfresh(after, cfg)
               /\ after.config = cfg
               /\ after.routeGeometry = RouteGeometryV1
               /\ IF TotalNeededV1(cfg) >= 1
                  THEN /\ OneTruckAtStart(after)
                       /\ after.nextTruckNumber = 2
                       /\ after.nextDispatchTime = <<now + (60 * 60) \div cfg.trucksPerHour>>
                  ELSE after.activeTrucks = <<>>

\* the state right after a session was started over an earlier one: a stored config with
\* path geometry, nothing in the map or the log, the counter at 1, the next-dispatch time
\* at the session's start time, and the trip mapping of the earlier session still there
C13_Witness ==
    /\ config # NoConfig
    /\ BaseGeometry(config) # NoGeometry
    /\ isRunning
    /\ activeTrucks = <<>>
    /\ deliveryLog = <<>>
    /\ nextTruckNumber = 1
    /\ nextDispatchTime = <<config.startTime>>
    /\ \E t \in TripIds : tripToTruckId[t] # NoId

(* C13, as stated: when a path geometry exists and at least one truck is     *)
(* needed, the state right after startDeliverySession has exactly one active *)
(* truck, EN_ROUTE at progress 0, and an empty delivery log.                 *)
C13_AsStated ==
    \A cfg \in WideSessionConfigs, geo \in PathGeometryChoices :
        TotalNeededV1(cfg) >= 1
            => LET after == startDeliverySession(St, cfg, geo, now, corridors)
               IN  OneTruckAtStart(after) /\ after.deliveryLog = <<>>
---------------------------------------------------------------------------
(* C14: in every reachable state, every delivery record's hourWindow is      *)
(* floor((arrivalTime - session startTime) / 1 hour) and is at least 0.      *)
C14_HourWindow ==
    \A k \in 1..Len(deliveryLog) :
        /\ deliveryLog[k].hourWindow =
               HourWindowOf(deliveryLog[k].arrivalTime, config.startTime)
        /\ deliveryLog[k].hourWindow >= 0

\* the half of C14 the tick's completion path breaks on its own
C14_NeverNegative ==
    \A k \in 1..Len(deliveryLog) : deliveryLog[k].hourWindow >= 0
---------------------------------------------------------------------------
(* Read-only queries of the latest revision: the throughput analysis and    *)
(* the status report, evaluated at a clock reading t (new Date()).          *)
RFloor(a) == a[1] \div a[2]

\* Math.round: the nearest integer, halves upwards
RRound(a) == (2 * a[1] + a[2]) \div (2 * a[2])

\* the integer a Date keeps of a fractional number of milliseconds
RTrunc(a) == IF a[1] >= 0 THEN a[1] \div a[2] ELSE -((-a[1]) \div a[2])

Max0(i) == IF i > 0 THEN i ELSE 0

\* Math.ceil(config.targetVolume / config.volumePerTruck)
TotalNeeded(cfg) == (cfg.targetVolume + cfg.volumePerTruck - 1) \div cfg.volumePerTruck

getBaselineTravelTime(st) ==
    IF st.config = NoConfig THEN RInt(1800)
    ELSE LET base == BaseGeometry(st.config)
             cap  == IF st.config.defaultSpeed < MIXER_MAX_SPEED
                     THEN st.config.defaultSpeed ELSE MIXER_MAX_SPEED
         IN  IF base = NoGeometry THEN RInt(1800)
             ELSE RMul(Rat(calculateRouteDistance(base.coordinates), cap),
                       RInt(SecondsPerHour))

\* a count that takes in the earlier windows too
ArrivalsUpToWindow(log, h) == Cardinality({k \in 1..Len(log) : log[k].hourWindow <= h})

\* deliveryLog.filter(r => r.hourWindow === h).length
ArrivalsInWindow(log, h) == Cardinality({k \in 1..Len(log) : log[k].hourWindow = h})

\* a shortfall that leaves the completions out
ShortfallOfTarget(expectedByNow, actualTotal) == Max0(expectedByNow)

Shortfall(expectedByNow, actualTotal) == Max0(expectedByNow - actualTotal)

\* an empty result that raises the schedule flag
NoThroughputBehind ==
    [currentWindow |-> 0, windowTarget |-> 0, windowActual |-> 0, windowShortfall |-> 0,
     hourlyBreakdown |-> <<>>, actualRate |-> RZero, behindSchedule |-> TRUE,
     delayMinutes |-> 0]

NoThroughput ==
    [currentWindow |-> 0, windowTarget |-> 0, windowActual |-> 0, windowShortfall |-> 0,
     hourlyBreakdown |-> <<>>, actualRate |-> RZero, behindSchedule |-> FALSE,
     delayMinutes |-> 0]

getThroughputAnalysis(st, t) ==
    IF st.config = NoConfig THEN NoThroughput
    ELSE LET cfg == st.config
             elapsedHours == Rat(t - cfg.startTime, SecondsPerHour)
             currentWindow == RFloor(elapsedHours)
             fractionIntoCurrentHour == RSub(elapsedHours, RInt(currentWindow))
             expectedByNow == RFloor(RMul(elapsedHours, RInt(cfg.trucksPerHour)))
             actualTotal == Len(st.deliveryLog)
             maxWindow == currentWindow + 1
             currentWindowTarget ==
                 RFloor(RMul(fractionIntoCurrentHour, RInt(cfg.trucksPerHour)))
             hourlyBreakdown ==
                 [i \in 1..Max0(maxWindow) |->
                     LET h == i - 1
                         arrivalsInWindow == ArrivalsInWindow(st.deliveryLog, h)
                         target == IF h = currentWindow THEN currentWindowTarget
                                   ELSE cfg.trucksPerHour
                     IN  [hour |-> h, target |-> target, actual |-> arrivalsInWindow,
                          diff |-> arrivalsInWindow - target]]
             currentWindowArrivals == ArrivalsInWindow(st.deliveryLog, currentWindow)
             actualRate == IF RLt(RZero, elapsedHours)
                           THEN RDiv(RInt(actualTotal), elapsedHours) ELSE RZero
             shortfall == Shortfall(expectedByNow, actualTotal)
             totalNeeded == TotalNeeded(cfg)
             delayMinutes ==
                 IF actualTotal > 0 /\ RLt(RZero, actualRate)
                 THEN LET hoursToFinish == RDiv(RInt(totalNeeded - actualTotal), actualRate)
                          projectedFinish ==
                              RTrunc(RAdd(RInt(t * 1000),
                                          RMul(hoursToFinish, RInt(SecondsPerHour * 1000))))
                          plannedHoursTotal == Rat(totalNeeded, cfg.trucksPerHour)
                          plannedFinish ==
                              RTrunc(RAdd(RAdd(RInt(cfg.startTime * 1000),
                                               RMul(plannedHoursTotal,
                                                    RInt(SecondsPerHour * 1000))),
                                          RMul(getBaselineTravelTime(st), RInt(1000))))
                      IN  Max0(RRound(Rat(projectedFinish - plannedFinish, 60000)))
                 ELSE 0
         IN  [currentWindow |-> currentWindow,
              windowTarget |-> currentWindowTarget,
              windowActual |-> currentWindowArrivals,
              windowShortfall |-> Max0(currentWindowTarget - currentWindowArrivals),
              hourlyBreakdown |-> hourlyBreakdown,
              actualRate |-> Rat(RRound(RMul(actualRate, RInt(10))), 10),
              behindSchedule |-> shortfall > 0,
              delayMinutes |-> delayMinutes]
\* the null getDeliveryStatus returns
NoStatus == [absent |-> TRUE]

EnRouteCount(m) == Cardinality({i \in 1..Len(m) : m[i].status = "en-route"})

\* Dates are reported as ISO strings, one string per instant: the report keeps the instant
getDeliveryStatus(st, t) ==
    IF st.config = NoConfig THEN NoStatus
    ELSE LET cfg == st.config
             totalNeeded == TotalNeeded(cfg)
             delivered == SumVolume(st.deliveryLog)
             trucksCompleted == Len(st.deliveryLog)
             trucksEnRoute == EnRouteCount(st.activeTrucks)
             throughput == getThroughputAnalysis(st, t)
             base == BaseGeometry(cfg)
             estimatedCompletionTime ==
                 IF RLt(RZero, throughput.actualRate)
                 THEN <<RTrunc(RAdd(RInt(t * 1000),
                                    RMul(RDiv(RInt(totalNeeded - trucksCompleted),
                                              throughput.actualRate),
                                         RInt(SecondsPerHour * 1000))))>>
                 ELSE NoDate
         IN  [config |->
                 [targetVolume |-> cfg.targetVolume, volumePerTruck |-> cfg.volumePerTruck,
                  trucksPerHour |-> cfg.trucksPerHour, routeId |-> cfg.routeId,
                  startTime |-> cfg.startTime,
                  totalSegments |-> IF base = NoGeometry THEN 0 ELSE base.segmentCount,
                  totalDistance |->
                      IF base = NoGeometry THEN RZero
                      ELSE Rat(RRound(RInt(10 * calculateRouteDistance(base.coordinates))), 10),
                  mixerSpeedCap |-> MIXER_MAX_SPEED],
              progress |->
                 [delivered |-> delivered,
                  remaining |-> Max0(cfg.targetVolume - delivered),
                  percentComplete |->
                      IF cfg.targetVolume > 0
                      THEN RRound(Rat(delivered * 100, cfg.targetVolume)) ELSE 0,
                  totalTrucksNeeded |-> totalNeeded,
                  trucksCompleted |-> trucksCompleted,
                  trucksEnRoute |-> trucksEnRoute,
                  trucksWaiting |-> Max0(totalNeeded - (trucksCompleted + trucksEnRoute)),
                  estimatedCompletion |-> estimatedCompletionTime],
              throughput |->
                 [targetRate |-> cfg.trucksPerHour,
                  actualRate |-> throughput.actualRate,
                  currentWindow |-> throughput.currentWindow,
                  windowTarget |-> throughput.windowTarget,
                  windowActual |-> throughput.windowActual,
                  windowShortfall |-> throughput.windowShortfall,
                  behindSchedule |-> throughput.behindSchedule,
                  delayMinutes |-> throughput.delayMinutes,
                  hourlyBreakdown |-> throughput.hourlyBreakdown],
              trucks |->
                 [i \in 1..Len(st.activeTrucks) |->
                     LET truck == st.activeTrucks[i]
                     IN  [truckId |-> truck.truckId, truckNumber |-> truck.truckNumber,
                          status |-> truck.status, position |-> truck.currentPosition,
                          progress |-> RRound(RMul(truck.progressRatio, RInt(100))),
                          currentSpeed |-> RRound(truck.currentSpeed),
                          departureTime |-> truck.departureTime,
                          arrivalTime |-> truck.arrivalTime,
                          concreteVolume |-> truck.concreteVolume,
                          elapsedSeconds |-> truck.elapsedSeconds]],
              deliveryLog |->
                 [k \in 1..Len(st.deliveryLog) |->
                     LET r == st.deliveryLog[k]
                     IN  [truckId |-> r.truckId, truckNumber |-> r.truckNumber,
                          departureTime |-> r.departureTime, arrivalTime |-> r.arrivalTime,
                          travelTimeMinutes |-> RRound(Rat(r.travelTimeSeconds, 60)),
                          concreteVolume |-> r.concreteVolume,
                          cumulativeVolume |-> r.cumulativeVolume,
                          hourWindow |-> r.hourWindow]],
              timestamp |-> t]
---------------------------------------------------------------------------
\* clock readings at which a query is evaluated: now and later in the session
QueryTimes == {now, now + ClockStep, now + 4 * ClockStep, now + 9 * ClockStep}

(* C15: the analysis reports behindSchedule exactly when the expected        *)
(* arrivals by now, floor(elapsed hours x trucksPerHour), exceed the number  *)
(* of delivery records; with no config it reports false.                     *)
C15_BehindSchedule ==
    \A t \in QueryTimes :
        getThroughputAnalysis(St, t).behindSchedule
            <=> /\ config # NoConfig
                /\ ((t - config.startTime) * config.trucksPerHour) \div SecondsPerHour
                       > Len(deliveryLog)

\* a session with a delivery recorded that is on schedule now, one expected and one
\* arrived, and behind schedule an hour later if nothing else arrives
C15_Witness ==
    /\ config # NoConfig
    /\ Len(deliveryLog) >= 1
    /\ now > config.startTime
    /\ ~getThroughputAnalysis(St, now).behindSchedule
    /\ getThroughputAnalysis(St, now + 4 * ClockStep).behindSchedule
---------------------------------------------------------------------------
\* the throughput analysis has nothing to report: no window, no rate, no flag
IsEmptyThroughput(r) ==
    /\ r.currentWindow = 0 /\ r.windowTarget = 0
    /\ r.windowActual = 0 /\ r.windowShortfall = 0
    /\ r.hourlyBreakdown = <<>>
    /\ r.actualRate = RZero
    /\ ~r.behindSchedule
    /\ r.delayMinutes = 0

(* C16: in every reachable state without a config, tickDelivery changes no   *)
(* state, getDeliveryStatus returns null, the throughput analysis returns    *)
(* its empty result, and addTruckFromTrip returns null and changes no state. *)
C16_NoConfig ==
    config = NoConfig
        => /\ \A dt \in WideDts : tickDelivery(St, dt, now, corridors) = St
           /\ \A t \in QueryTimes :
                  /\ getDeliveryStatus(St, t) = NoStatus
                  /\ IsEmptyThroughput(getThroughputAnalysis(St, t))
           /\ \A id \in TripIds, speed \in WideSpeeds, totalDist \in {0, 20} :
                  \A trip \in WideRows(id) :
                      /\ addTruckFromTripResult(St, trip, totalDist, speed, now) = NoTruck
                      /\ addTruckFromTrip(St, trip, totalDist, speed, now) = St

\* no config after a reset that followed a session with a trip truck: the trip's mapping
\* is still there
C16_Witness ==
    /\ config = NoConfig
    /\ now > 0
    /\ \E t \in TripIds : tripToTruckId[t] # NoId
---------------------------------------------------------------------------
(* C17: in every reachable state, tickDelivery, hydrateFromTrips,            *)
(* completeTruckFromDb, pruneInactiveTrips, clearActiveTrucks and            *)
(* stopDelivery leave the config as it is, in particular absent if it was    *)
(* absent; startDeliverySession stores the config of its request; and        *)
(* resetDelivery leaves no config.                                           *)
C17_ConfigSetOnlyByStart ==
    /\ \A dt \in WideDts : tickDelivery(St, dt, now, corridors).config = config
    /\ \A trips \in WideTripLists, speed \in WideSpeeds :
           hydrateFromTrips(St, trips, speed, now).config = config
    /\ \A tripId \in TripIds : completeTruckFromDb(St, tripId, now).config = config
    /\ \A ids \in SUBSET TripIds : pruneInactiveTrips(St, ids).config = config
    /\ clearActiveTrucks(St).config = config
    /\ stopDelivery(St).config = config
    /\ \A cfg \in WideSessionConfigs, geo \in WidePathGeometries :
           startDeliverySession(St, cfg, geo, now, corridors).config = StoredConfig(cfg, geo)
    /\ resetDelivery(St).config = NoConfig
\* what does hold of C17: a config that is present stays as it is under every operation
\* other than startDeliverySession and resetDelivery
C17_PresentConfigKept ==
    config # NoConfig
        => /\ \A dt \in WideDts : tickDelivery(St, dt, now, corridors).config = config
           /\ \A trips \in WideTripLists, speed \in WideSpeeds :
                  hydrateFromTrips(St, trips, speed, now).config = config
           /\ \A tripId \in TripIds : completeTruckFromDb(St, tripId, now).config = config
           /\ \A ids \in SUBSET TripIds : pruneInactiveTrips(St, ids).config = config
           /\ clearActiveTrucks(St).config = config
           /\ stopDelivery(St).config = config
---------------------------------------------------------------------------
IsPrefix(a, b) == Len(a) <= Len(b) /\ SubSeq(b, 1, Len(a)) = a

\* the records of the log before are the first records of the log after, as they were
AppendOnly(before, after) == IsPrefix(before.deliveryLog, after.deliveryLog)

Appended(before, after) == Len(after.deliveryLog) - Len(before.deliveryLog)

RECURSIVE InProgressCount(_)
InProgressCount(trips) ==
    IF Len(trips) = 0 THEN 0
    ELSE (IF Head(trips).status = "in_progress" THEN 1 ELSE 0) + InProgressCount(Tail(trips))

\* every operation a session runs under, start and reset apart
AfterEveryStep(P(_, _)) ==
    /\ \A dt \in WideDts : P(St, tickDelivery(St, dt, now, corridors))
    /\ \A trips \in WideTripLists, speed \in WideSpeeds :
           P(St, hydrateFromTrips(St, trips, speed, now))
    /\ \A tripId \in TripIds : P(St, completeTruckFromDb(St, tripId, now))
    /\ \A ids \in SUBSET TripIds : P(St, pruneInactiveTrips(St, ids))
    /\ P(St, clearActiveTrucks(St))
    /\ P(St, stopDelivery(St))

(* C18, as the code has it: from every reachable state, tickDelivery,        *)
(* hydrateFromTrips and completeTruckFromDb only append to the delivery log, *)
(* one record per truck they complete: a tick at most one per en-route       *)
(* truck, a hydration at most one per in-progress trip of its list, a        *)
(* completion from the trips table at most one; pruneInactiveTrips,          *)
(* clearActiveTrucks and stopDelivery leave the log as it is.  The records   *)
(* already in the log stay where they are, unmodified.                       *)
C18_LogAppendOnly ==
    /\ \A dt \in WideDts :
           LET after == tickDelivery(St, dt, now, corridors)
           IN  /\ AppendOnly(St, after)
               /\ Appended(St, after) <= EnRouteCount(activeTrucks)
    /\ \A trips \in WideTripLists, speed \in WideSpeeds :
           LET after == hydrateFromTrips(St, trips, speed, now)
           IN  /\ AppendOnly(St, after)
               /\ Appended(St, after) <= InProgressCount(trips)
    /\ \A tripId \in TripIds :
           LET after == completeTruckFromDb(St, tripId, now)
           IN  AppendOnly(St, after) /\ Appended(St, after) <= 1
    /\ \A ids \in SUBSET TripIds : pruneInactiveTrips(St, ids).deliveryLog = deliveryLog
    /\ clearActiveTrucks(St).deliveryLog = deliveryLog
    /\ stopDelivery(St).deliveryLog = deliveryLog

\* two trucks completed by the same tick: two records with this instant as arrival time,
\* the trucks of both still in the active map, arrived
C18_Witness ==
    /\ Len(deliveryLog) = 2
    /\ deliveryLog[1].truckId # deliveryLog[2].truckId
    /\ \A k \in 1..2 :
           /\ deliveryLog[k].arrivalTime = now
           /\ MapHas(activeTrucks, deliveryLog[k].truckId)
           /\ MapGet(activeTrucks, deliveryLog[k].truckId).status = "arrived"

(* C18, as stated: from every reachable state, each call of tickDelivery,    *)
(* hydrateFromTrips, completeTruckFromDb, pruneInactiveTrips,                *)
(* clearActiveTrucks or stopDelivery leaves the delivery log unchanged or    *)
(* appends one record at its end.                                            *)
C18_AsStated ==
    AfterEveryStep(LAMBDA before, after :
        AppendOnly(before, after) /\ Appended(before, after) <= 1)
---------------------------------------------------------------------------
\* the corridor ids of the cache and the samples an update may carry
CorridorIds == DOMAIN corridors
WideSamples == {<<speedToState(v), v>> : v \in {0, 20, 40, 80}}

\* the cache entry an update of routeId leaves
EntryOf(routeId, sample, t) ==
    [id |-> routeId, state |-> sample[1], speed |-> sample[2], lastUpdated |-> t]

\* cs2 is cs1 with the entry of routeId replaced by the update's values
OnlyEntryWritten(cs1, cs2, routeId, sample, t) ==
    /\ DOMAIN cs2 = DOMAIN cs1
    /\ cs2[routeId] = EntryOf(routeId, sample, t)
    /\ \A r \in DOMAIN cs1 \ {routeId} : cs2[r] = cs1[r]

(* C19: the cache has one slot per corridor id.  From every reachable cache, *)
(* updateCorridorState(id, state, speed) leaves under that id exactly the    *)
(* state, speed and time of this update, whether the entry existed or not,   *)
(* and leaves every other id as it was; a second update of the same id       *)
(* replaces the first.  No step of the system removes an entry.              *)
C19_TrafficCache ==
    /\ [](\A r \in CorridorIds, s1 \in WideSamples, s2 \in WideSamples :
             LET once == updateCorridorState(corridors, r, s1[1], s1[2], now)
                 twice == updateCorridorState(once, r, s2[1], s2[2], now + 1)
             IN  /\ OnlyEntryWritten(corridors, once, r, s1, now)
                 /\ OnlyEntryWritten(once, twice, r, s2, now + 1)
                 /\ OnlyEntryWritten(corridors, twice, r, s2, now + 1))
    /\ [][\A r \in CorridorIds : corridors[r] # NoSample => corridors'[r] # NoSample]_vars

\* an entry written by a fetch cycle after the first one: corridor 1 under congestion
C19_Witness ==
    /\ corridors[1] # NoSample
    /\ corridors[1].lastUpdated = ClockStep
    /\ corridors[1].speed = 20
    /\ corridors[1].state = "RED"
    /\ now > ClockStep
---------------------------------------------------------------------------
\* answers of the feed that make a fetch fail, with and without a body
FailedResponses ==
    {[kind |-> k, segments |-> segs] :
        k \in {"http-error", "exception"}, segs \in {<<>>, SegmentsOf({1, 2}, 20)}}
        \cup {[kind |-> "parsed", segments |-> <<>>]}

\* answers of a fetch that succeeds
GoodResponses == {[kind |-> "parsed", segments |-> SegmentsOf(ids, v)] :
                      ids \in {{1}, {1, 2, 5}}, v \in {20, 80}}

(* C20: from every reachable state, a fetch cycle whose fetch fails (HTTP    *)
(* error, exception, or a document without segments) leaves every cache      *)
(* entry as it was; a tick after it computes what it would have computed     *)
(* without it, and the next fetch cycle writes what it would have written.   *)
C20_FailedFetch ==
    \A response \in FailedResponses :
        LET after == updateTrafficData(corridors, fetchTrafficSpeedMap(response), now)
        IN  /\ after = corridors
            /\ \A dt \in WideDts :
                   tickDelivery(St, dt, now + dt, after)
                       = tickDelivery(St, dt, now + dt, corridors)
            /\ \A next \in GoodResponses :
                   updateTrafficData(after, fetchTrafficSpeedMap(next), now + ClockStep)
                       = updateTrafficData(corridors, fetchTrafficSpeedMap(next),
                                           now + ClockStep)

\* a running session with a truck under way and a cache entry from an earlier fetch
\* cycle, which the tick after a failed fetch goes on using
C20_Witness ==
    /\ isRunning /\ config # NoConfig
    /\ \E i \in 1..Len(activeTrucks) : activeTrucks[i].status = "en-route"
    /\ corridors[1] # NoSample
    /\ corridors[1].lastUpdated < now
    /\ \E dt \in WideDts : tickDelivery(St, dt, now + dt, corridors) # St
---------------------------------------------------------------------------
(* The legacy fleet simulation of truckService.ts (lines 336-472), the one  *)
(* the backend test drives: a map of trucks that all run the same route at  *)
(* a fixed speed, and the records of the deliveries they completed.         *)

CONCRETE_LOAD == 10
AVERAGE_SPEED == 40

\* the number 0 / 0 yields
NaN == <<0, 0>>

LegacySt == [trucks |-> trucks, deliveryRecords |-> deliveryRecords]

\* `truck-${routeId}-${i}-${Date.now()}`
LegacyTruckId(routeId, i, t) == <<"truck", routeId, i, t>>

\* (totalDistance / averageSpeed) * 3600
LegacyTotalTimeSeconds(totalDistance, averageSpeed) ==
    RMul(RDiv(RInt(totalDistance), RInt(averageSpeed)), RInt(SecondsPerHour))

\* coords[0] when there is one, [0, 0] otherwise
LegacyStartCoord(coords) ==
    IF Len(coords) > 0 THEN <<RInt(coords[1][1]), RInt(coords[1][2])>> ELSE <<RZero, RZero>>

\* the trucks the loop of initializeTrucks sets, i = 0 .. count - 1
InitializedTrucks(routeId, coords, count, t) ==
    [k \in 1..count |->
        [truckId |-> LegacyTruckId(routeId, k - 1, t),
         routeId |-> routeId,
         status |-> "moving",
         currentPosition |-> LegacyStartCoord(coords),
         progressRatio |-> RZero,
         elapsedTime |-> 0,
         totalDistance |-> calculateRouteDistance(coords),
         averageSpeed |-> AVERAGE_SPEED,
         eta |-> LegacyTotalTimeSeconds(calculateRouteDistance(coords), AVERAGE_SPEED),
         completedAt |-> NoDate,
         concreteLoad |-> CONCRETE_LOAD]]

\* clears the trucks, never the records
initializeTrucks(ls, routeId, geometry, count, t) ==
    [ls EXCEPT !.trucks = InitializedTrucks(routeId, geometry.coordinates, count, t)]

\* Math.min(elapsedTime / totalTimeSeconds, 1): x / 0 is Infinity for x > 0
\* and NaN for x = 0, and Math.min of NaN is NaN
LegacyProgress(elapsedTime, totalTimeSeconds) ==
    IF totalTimeSeconds = RZero
    THEN IF elapsedTime = 0 THEN NaN ELSE ROne
    ELSE RMin(RDiv(RInt(elapsedTime), totalTimeSeconds), ROne)

\* interpolatePosition with a ratio that may be NaN: no comparison with NaN
\* holds, so the loop falls through to the last coordinate
LegacyPosition(coords, progressRatio) ==
    IF progressRatio # NaN THEN interpolatePosition(coords, progressRatio)
    ELSE IF Len(coords) = 0 THEN <<RZero, RZero>>
    ELSE <<RInt(coords[Len(coords)][1]), RInt(coords[Len(coords)][2])>>

\* progressRatio >= 1, false for NaN
LegacyReached(progressRatio) == progressRatio # NaN /\ RLe(ROne, progressRatio)

\* completeTruck of the legacy simulation, for the truck at index i
completeTruckLegacy(ls, i, t) ==
    LET truck == ls.trucks[i]
    IN  [trucks |-> [ls.trucks EXCEPT ![i] =
                        [truck EXCEPT !.status = "completed",
                                      !.completedAt = <<t>>,
                                      !.progressRatio = ROne]],
         deliveryRecords |-> Append(ls.deliveryRecords,
                        [truckId |-> truck.truckId,
                         routeId |-> truck.routeId,
                         startTime |-> t - truck.elapsedTime,
                         completionTime |-> t,
                         totalTime |-> truck.elapsedTime,
                         concreteDelivered |-> truck.concreteLoad])]

\* one iteration of the loop of updateTruckProgress
UpdateTruck(ls, i, deltaTimeSeconds, coords, t) ==
    LET truck == ls.trucks[i]
        elapsedTime == truck.elapsedTime + deltaTimeSeconds
        totalTimeSeconds == LegacyTotalTimeSeconds(truck.totalDistance, truck.averageSpeed)
        progressRatio == LegacyProgress(elapsedTime, totalTimeSeconds)
        moved == [ls EXCEPT !.trucks[i] =
                     [truck EXCEPT !.elapsedTime = elapsedTime,
                                   !.progressRatio = progressRatio,
                                   !.currentPosition = LegacyPosition(coords, progressRatio),
                                   !.eta = RMax(RZero, RSub(totalTimeSeconds, RInt(elapsedTime)))]]
    IN  IF truck.status # "moving" THEN ls
        ELSE IF LegacyReached(progressRatio) THEN completeTruckLegacy(moved, i, t)
        ELSE moved

RECURSIVE UpdateLoop(_, _, _, _, _)
UpdateLoop(ls, i, deltaTimeSeconds, coords, t) ==
    IF i > Len(ls.trucks) THEN ls
    ELSE UpdateLoop(UpdateTruck(ls, i, deltaTimeSeconds, coords, t), i + 1,
                    deltaTimeSeconds, coords, t)

updateTruckProgress(ls, deltaTimeSeconds, geometry, t) ==
    UpdateLoop(ls, 1, deltaTimeSeconds, geometry.coordinates, t)

RECURSIVE SumDelivered(_)
SumDelivered(records) ==
    IF Len(records) = 0 THEN 0
    ELSE Head(records).concreteDelivered + SumDelivered(Tail(records))

getTotalConcreteDelivered(ls) == SumDelivered(ls.deliveryRecords)

resetSimulation(ls) == [trucks |-> <<>>, deliveryRecords |-> <<>>]

\* the bounds of the checked fleet and of the records it leaves behind
MaxFleet == 3
MaxLegacyRecords == 3

\* the route of the backend test
LegacyRouteIds == {93231}

\* routes of 10 km and 20 km, a route of one point and a route without points
LegacyGeometries ==
    {[coordinates |-> HkcGeometry.coordinates],
     [coordinates |-> GammonGeometry.coordinates],
     [coordinates |-> <<<<1, 1>>>>],
     [coordinates |-> <<>>]}

\* a 10 km route takes 900 s at 40 km/h
LegacyDts == {0, 450, 900}

ApplyLegacy(ls) ==
    /\ trucks' = ls.trucks
    /\ deliveryRecords' = ls.deliveryRecords
    /\ UNCHANGED <<engineVars, stitchVars, asyncVars>>

ResetSimulation == ApplyLegacy(resetSimulation(LegacySt))

InitializeTrucks ==
    /\ Len(deliveryRecords) <= MaxLegacyRecords
    /\ \E routeId \in LegacyRouteIds, geometry \in LegacyGeometries, count \in 0..MaxFleet :
          ApplyLegacy(initializeTrucks(LegacySt, routeId, geometry, count, now))

UpdateTruckProgress ==
    \E deltaTimeSeconds \in LegacyDts, geometry \in LegacyGeometries :
       ApplyLegacy(updateTruckProgress(LegacySt, deltaTimeSeconds, geometry, now))

NextLegacy ==
    \/ ResetSimulation
    \/ InitializeTrucks
    \/ UpdateTruckProgress

SpecLegacy == Init /\ [][NextLegacy]_vars

---------------------------------------------------------------------------
(* The stitcher's claims are about the call the state holds: its arguments   *)
(* stitchRouteIds and stitchStart, and its result stitchedPath.              *)

\* the anchor the call starts from, and the segments it found usable
StitchAnchor == IF stitchStart = NoStart THEN GAMMON_START ELSE stitchStart
StitchSegments == UsableSegments(StitchCorridors, stitchRouteIds)

RECURSIVE StitchTrace(_, _, _)
\* the states of the outer loop, from its state before step `step` to its last
StitchTrace(segments, loop, step) ==
    IF step >= Len(segments) THEN <<loop>>
    ELSE LET best == BestFrom(segments, loop.used, loop.cursor, 1, NoBest)
         IN  IF best.idx = 0 THEN <<loop>>
             ELSE <<loop>> \o StitchTrace(segments, AppendBest(segments, loop, best), step + 1)

StitchSteps == StitchTrace(StitchSegments, StitchStart(StitchAnchor), 0)

\* the segment the step from loop state k appends, turned the way it is appended
AppendedAt(k) ==
    LET best == BestFrom(StitchSegments, StitchSteps[k].used, StitchSteps[k].cursor, 1, NoBest)
    IN  IF best.reverse THEN Reverse(StitchSegments[best.idx].coords)
        ELSE StitchSegments[best.idx].coords

\* the step from loop state k meets a junction: the segment it appends begins where the
\* path so far ends
IsJunction(k) ==
    /\ Len(StitchSteps[k].orderedCoords) > 0
    /\ AppendedAt(k)[1] = StitchSteps[k].orderedCoords[Len(StitchSteps[k].orderedCoords)]

RECURSIVE SumOfLengths(_)
SumOfLengths(segments) ==
    IF Len(segments) = 0 THEN 0
    ELSE Len(Head(segments).coords) + SumOfLengths(Tail(segments))

(* C21: in the path a call of stitchPath returns, a segment that begins      *)
(* where the path so far ends contributes its coordinates without the first  *)
(* one, and any other segment contributes all of them; the number of         *)
(* coordinates returned is the sum of the segments' lengths less the number  *)
(* of such junctions.  Corridors (0,0)-(1,0) and (1,0)-(2,0) from the anchor *)
(* (0,0) give (0,0), (1,0), (2,0) with segmentCount 2.                       *)
C21_JunctionsDeduplicated ==
    stitchedPath \notin {NotStitched, NoGeometry}
        => /\ stitchedPath.coordinates = StitchSteps[Len(StitchSteps)].orderedCoords
           /\ \A k \in 1..(Len(StitchSteps) - 1) :
                  StitchSteps[k + 1].orderedCoords =
                      StitchSteps[k].orderedCoords
                          \o (IF IsJunction(k) THEN Tail(AppendedAt(k)) ELSE AppendedAt(k))
           /\ Len(stitchedPath.coordinates) =
                  SumOfLengths(StitchSegments)
                      - Cardinality({k \in 1..(Len(StitchSteps) - 1) : IsJunction(k)})
           /\ (stitchRouteIds = <<1, 2>> /\ StitchAnchor = <<0, 0>>)
                  => stitchedPath = [coordinates |-> <<<<0, 0>>, <<1, 0>>, <<2, 0>>>>,
                                     segmentCount |-> 2]

\* three corridors listed out of order and stitched at two junctions, the last one
\* turned round
C21_Witness ==
    /\ stitchRouteIds = <<3, 1, 2>>
    /\ stitchedPath \notin {NotStitched, NoGeometry}
    /\ stitchedPath.coordinates = <<<<0, 0>>, <<1, 0>>, <<2, 0>>, <<2, 1>>, <<3, 0>>>>
    /\ stitchedPath.segmentCount = 3
---------------------------------------------------------------------------
\* an empty traffic cache, and a session of 40 km/h default speed started now
QuietCorridors == [r \in DOMAIN corridors |-> NoSample]
PlainConfig ==
    [routeId |-> 0, targetVolume |-> 16, volumePerTruck |-> 8, trucksPerHour |-> 2,
     startTime |-> now, defaultSpeed |-> 40]

\* the engine right after a session was started and a truck dispatched on the 10 km path
FreshTruckOnTenKm ==
    dispatchTruck(startDeliverySession(St, PlainConfig,
                                       CHOOSE geo \in PathGeometryChoices : TRUE,
                                       now, QuietCorridors),
                  "HKC_TY", now, QuietCorridors)

\* the progressRatio a tick of dt seconds at the given speed leaves an EN_ROUTE truck with
TickedProgress(truck, dt, speed) ==
    RMax(truck.progressRatio,
         RMin(RDiv(RDiv(RMul(speed, RInt(truck.elapsedSeconds + dt)), RInt(3600)),
                   RInt(truck.totalDistance)),
              ROne))

(* C22, as the code has it: from every reachable state of a running         *)
(* session, a tick of dt seconds leaves every EN_ROUTE truck whose path has  *)
(* a geometry with elapsedSeconds increased by dt and with progressRatio     *)
(* max(previous progressRatio, min(speed x elapsedSeconds / 3600 /           *)
(* totalDistance, 1)), elapsedSeconds being the increased one and speed the  *)
(* path speed of this tick.  A fresh truck on a 10 km path at 40 km/h has    *)
(* covered 40 km after one tick of 3600 s: it is at progress 1 and ARRIVED;  *)
(* after one tick of 360 s it is at progress 2/5 and EN_ROUTE.               *)
C22_TickProgress ==
    /\ (config # NoConfig /\ isRunning)
          => \A dt \in WideDts, i \in 1..Len(activeTrucks) :
                 LET truck == activeTrucks[i]
                     after == tickDelivery(St, dt, now + dt, corridors).activeTrucks[i]
                     speed == getPathAverageSpeed(truck.pathId, config.defaultSpeed, corridors)
                 IN  (truck.status = "en-route"
                          /\ config.pathGeometries[truck.pathId] # NoGeometry)
                         => /\ after.truckId = truck.truckId
                            /\ after.elapsedSeconds = truck.elapsedSeconds + dt
                            /\ after.progressRatio = TickedProgress(truck, dt, speed)
                            /\ after.status = IF after.progressRatio = ROne THEN "arrived"
                                              ELSE "en-route"
    /\ LET fresh == FreshTruckOnTenKm
           hour == tickDelivery(fresh, 3600, now + 3600, QuietCorridors)
           tenth == tickDelivery(fresh, 360, now + 360, QuietCorridors)
       IN  /\ Len(fresh.activeTrucks) = 1
           /\ fresh.activeTrucks[1].totalDistance = 10
           /\ fresh.activeTrucks[1].progressRatio = RZero
           /\ fresh.activeTrucks[1].currentSpeed = RInt(40)
           /\ hour.activeTrucks[1].progressRatio = ROne
           /\ hour.activeTrucks[1].status = "arrived"
           /\ tenth.activeTrucks[1].progressRatio = Rat(2, 5)
           /\ tenth.activeTrucks[1].status = "en-route"

\* a truck under way that a tick has moved at the speed of the traffic cache: its ratio
\* is the one its elapsed time and that speed give
C22_Witness ==
    \E i \in 1..Len(activeTrucks) :
        /\ activeTrucks[i].status = "en-route"
        /\ activeTrucks[i].elapsedSeconds >= ClockStep
        /\ activeTrucks[i].currentSpeed # RInt(40)
        /\ activeTrucks[i].progressRatio = FreshProgress(activeTrucks[i])
        /\ RLt(RZero, activeTrucks[i].progressRatio)
(* C22, as stated in its example: a fresh truck on a 10 km path at 40 km/h   *)
(* is at progress 2/5 and EN_ROUTE after one tick of 3600 s.                 *)
C22_AsStated ==
    LET after == tickDelivery(FreshTruckOnTenKm, 3600, now + 3600, QuietCorridors)
    IN  /\ after.activeTrucks[1].progressRatio = Rat(2, 5)
        /\ after.activeTrucks[1].status = "en-route"
---------------------------------------------------------------------------
(* The legacy fleet: a reset, an initialisation and a run of updates.       *)

\* the lists of one to three steps the updates are called with
LegacyDtLists ==
    UNION {[1..k -> LegacyDts] : k \in 1..3}

RECURSIVE SumDts(_)
SumDts(dts) == IF Len(dts) = 0 THEN 0 ELSE Head(dts) + SumDts(Tail(dts))

RECURSIVE LegacyRun(_, _, _, _)
\* updateTruckProgress called with each step of the list in turn
LegacyRun(ls, dts, geometry, t) ==
    IF Len(dts) = 0 THEN ls
    ELSE LegacyRun(updateTruckProgress(ls, Head(dts), geometry, t), Tail(dts), geometry, t)

\* the state resetSimulation leaves
AfterReset == LegacySt = resetSimulation(LegacySt)

\* the fleet initializeTrucks(routeId, geometry, count) makes of it
FreshFleet(routeId, geometry, count) ==
    initializeTrucks(LegacySt, routeId, geometry, count, now)

\* the travel time of the route at the fleet's speed, in seconds
RouteTravelTime(geometry) ==
    LegacyTotalTimeSeconds(calculateRouteDistance(geometry.coordinates), AVERAGE_SPEED)

RecordsOf(ls, truckId) ==
    {k \in 1..Len(ls.deliveryRecords) : ls.deliveryRecords[k].truckId = truckId}

\* every one of the count trucks completed at ratio 1 with one record of its own,
\* count x 10 delivered, and no further call adds a record
FleetDone(ls, geometry, count) ==
    /\ Len(ls.trucks) = count
    /\ \A i \in 1..count :
          /\ ls.trucks[i].status = "completed"
          /\ ls.trucks[i].progressRatio = ROne
          /\ Cardinality(RecordsOf(ls, ls.trucks[i].truckId)) = 1
    /\ Len(ls.deliveryRecords) = count
    /\ getTotalConcreteDelivered(ls) = count * CONCRETE_LOAD
    /\ \A dt \in LegacyDts, g \in LegacyGeometries :
          updateTruckProgress(ls, dt, g, now).deliveryRecords = ls.deliveryRecords

\* C23: after resetSimulation and initializeTrucks(route, geometry, n), updates
\* whose steps sum to at least the route's travel time leave all n trucks
\* completed at progressRatio 1 with exactly one delivery record each, so that
\* getTotalConcreteDelivered() is n x 10, and further updates add no record.
C23_FleetCompletes ==
    AfterReset =>
    \A routeId \in LegacyRouteIds, geometry \in LegacyGeometries,
       count \in 0..MaxFleet, dts \in LegacyDtLists :
       RLe(RouteTravelTime(geometry), RInt(SumDts(dts)))
       => FleetDone(LegacyRun(FreshFleet(routeId, geometry, count), dts, geometry, now),
                    geometry, count)

\* the same for the runs in which time passes: some step is longer than zero
C23_CompletesWhenTimePasses ==
    AfterReset =>
    \A routeId \in LegacyRouteIds, geometry \in LegacyGeometries,
       count \in 0..MaxFleet, dts \in LegacyDtLists :
       /\ SumDts(dts) > 0
       /\ RLe(RouteTravelTime(geometry), RInt(SumDts(dts)))
       => FleetDone(LegacyRun(FreshFleet(routeId, geometry, count), dts, geometry, now),
                    geometry, count)

\* a fleet of two or more run to completion after a reset, one record per truck
C23_Witness ==
    /\ Len(trucks) >= 2
    /\ \A i \in 1..Len(trucks) : trucks[i].status = "completed" /\ trucks[i].elapsedTime > 0
    /\ Len(deliveryRecords) = Len(trucks)
    /\ getTotalConcreteDelivered(LegacySt) = Len(trucks) * CONCRETE_LOAD

\* the trucks of a route without length, updated while no time passes
C23_Stuck ==
    /\ Len(trucks) >= 1
    /\ \A i \in 1..Len(trucks) :
          /\ trucks[i].status = "moving"
          /\ trucks[i].progressRatio = NaN
          /\ trucks[i].totalDistance = 0
    /\ deliveryRecords = <<>>
---------------------------------------------------------------------------
(* Dispatch (truckService.ts:619-675), called on every reachable state, and *)
(* called again after a tick has moved or completed the truck it made.      *)

RECURSIVE DigitsValue(_)
\* the number a sequence of decimal digits reads as
DigitsValue(digits) ==
    IF Len(digits) = 0 THEN 0
    ELSE 10 * DigitsValue(SubSeq(digits, 1, Len(digits) - 1)) + digits[Len(digits)]

\* the id is in use: a truck of the map or a record of the log carries it
IdUsed(st, truckId) ==
    \/ MapHas(st.activeTrucks, truckId)
    \/ \E k \in 1..Len(st.deliveryLog) : st.deliveryLog[k].truckId = truckId

\* the call returned a truck
DispatchSucceeded(before, after) == after # before

\* what a successful dispatch on pathId at time t leaves
Dispatched(before, after, pathId, t) ==
    LET n == Len(before.activeTrucks)
        truck == after.activeTrucks[n + 1]
        coords == before.config.pathGeometries[pathId].coordinates
    IN  /\ Len(after.activeTrucks) = n + 1
        /\ \A i \in 1..n : after.activeTrucks[i] = before.activeTrucks[i]
        /\ truck.status = "en-route"
        /\ truck.progressRatio = RZero
        /\ truck.elapsedSeconds = 0
        /\ truck.currentPosition = <<RInt(coords[1][1]), RInt(coords[1][2])>>
        /\ truck.pathId = pathId
        /\ truck.truckId[1] = "CMX"
        /\ Len(truck.truckId[2]) = 3
        /\ DigitsValue(truck.truckId[2]) = before.nextTruckNumber
        /\ truck.truckNumber = before.nextTruckNumber
        /\ ~IdUsed(before, truck.truckId)
        /\ after.nextTruckNumber = before.nextTruckNumber + 1
        /\ after.nextDispatchTime = <<t + (60 * 60) \div before.config.trucksPerHour>>
        /\ after.deliveryLog = before.deliveryLog
        /\ after.config = before.config
        /\ after.isRunning = before.isRunning
        /\ after.tripToTruckId = before.tripToTruckId

\* C24: a successful dispatch adds exactly one truck, EN_ROUTE at progressRatio 0
\* and elapsedSeconds 0 at the first coordinate of its path, under the
\* zero-padded id of the dispatch counter, an id that no truck and no record of
\* the session carries; the counter goes up by one, the next-dispatch time is
\* the dispatch instant plus the configured interval, and the trucks already
\* there and the delivery log stay as they are.  This holds for a dispatch from
\* any reachable state and for the dispatch that follows it after a tick.
C24_Dispatch ==
    \A p1 \in PathIds :
       LET s1 == dispatchTruck(St, p1, now, corridors)
       IN  DispatchSucceeded(St, s1) =>
           /\ Dispatched(St, s1, p1, now)
           /\ \A dt \in WideDts, p2 \in PathIds :
                 LET ticked == tickDelivery(s1, dt, now + dt, corridors)
                     s2 == dispatchTruck(ticked, p2, now + dt, corridors)
                 IN  DispatchSucceeded(ticked, s2) => Dispatched(ticked, s2, p2, now + dt)

\* a running session where a dispatch succeeds, a tick completes the dispatched truck,
\* and the next dispatch succeeds beside that truck and its record
C24_Witness ==
    /\ isRunning
    /\ \E p1 \in PathIds :
          LET s1 == dispatchTruck(St, p1, now, corridors)
          IN  /\ DispatchSucceeded(St, s1)
              /\ \E dt \in WideDts, p2 \in PathIds :
                    LET ticked == tickDelivery(s1, dt, now + dt, corridors)
                    IN  /\ Len(ticked.deliveryLog) > Len(deliveryLog)
                        /\ DispatchSucceeded(ticked,
                               dispatchTruck(ticked, p2, now + dt, corridors))
---------------------------------------------------------------------------
(* The speed of a path (truckService.ts:541-567) against its decision table *)

\* default speeds below and above the mixer cap
WideDefaults == {40, 80}

\* what a cache holds for a corridor: nothing (-1), or a sample of speed 0, 20 or 80
EntryChoices == {-1, 0, 20, 80}
EntryFor(routeId, v) ==
    IF v < 0 THEN NoSample ELSE EntryOf(routeId, <<speedToState(v), v>>, now)

\* the state's cache, and the caches that hold a for the first corridor of GAMMON_TM,
\* b for its second corridor and for the corridor of HKC_TY, and c for its corridor
\* of zero length and for the one that is not loaded
WideCaches ==
    {corridors} \cup
    {[r \in CorridorIds |->
         IF r = 1 THEN EntryFor(r, a)
         ELSE IF r \in {2, 5} THEN EntryFor(r, b) ELSE EntryFor(r, c)] :
        a \in EntryChoices, b \in EntryChoices, c \in {-1, 80}}

Min(a, b) == IF a <= b THEN a ELSE b

\* the table's row for one corridor
TableSpeed(routeId, defaultSpeed, cs) ==
    IF cs[routeId] # NoSample /\ cs[routeId].speed > 0
    THEN Min(cs[routeId].speed, MIXER_MAX_SPEED)
    ELSE Min(defaultSpeed, MIXER_MAX_SPEED)

\* the length of a corridor of the store, 0 for one that is not loaded
CorridorLength(routeId) ==
    IF getAllCorridors[routeId] = NoCorridor THEN 0
    ELSE calculateRouteDistance(getAllCorridors[routeId].geometry)

\* the positions of a path's list whose corridors have length
WithLength(pathId) ==
    {k \in 1..Len(PROJECT_PATHS[pathId]) : CorridorLength(PROJECT_PATHS[pathId][k]) > 0}

RECURSIVE SumOver(_, _)
\* the sum of f[k] over the k of a finite set
SumOver(S, f) ==
    IF S = {} THEN 0 ELSE LET k == CHOOSE x \in S : TRUE IN f[k] + SumOver(S \ {k}, f)

\* the table's path speed: the mean of the rows weighted by length
TablePathSpeed(pathId, defaultSpeed, cs) ==
    LET ids == PROJECT_PATHS[pathId]
        weighted == [k \in WithLength(pathId) |->
                        TableSpeed(ids[k], defaultSpeed, cs) * CorridorLength(ids[k])]
        lengths == [k \in WithLength(pathId) |-> CorridorLength(ids[k])]
    IN  IF WithLength(pathId) = {} THEN RInt(Min(defaultSpeed, MIXER_MAX_SPEED))
        ELSE Rat(SumOver(WithLength(pathId), weighted), SumOver(WithLength(pathId), lengths))

\* C25: getPathAverageSpeed follows the decision table.  A corridor contributes
\* min(cached speed, cap) when the cache has a sample of speed > 0 for it and
\* min(default, cap) when it has none or one of speed 0; the path speed is the
\* mean of the contributions of the corridors of positive length, weighted by
\* length, and min(default, cap) when the path has no such corridor; a corridor
\* without length has no row in the mean, whatever the cache holds for it.
C25_SpeedTable ==
    \A pathId \in PathIds, defaultSpeed \in WideDefaults, cs \in WideCaches :
       getPathAverageSpeed(pathId, defaultSpeed, cs) = TablePathSpeed(pathId, defaultSpeed, cs)

\* the cache of the state holds a sample above the cap for a corridor of GAMMON_TM and
\* nothing for its other corridor: the path speed mixes the cap and the default
C25_Witness ==
    /\ corridors[1] # NoSample
    /\ corridors[1].speed > MIXER_MAX_SPEED
    /\ corridors[2] = NoSample
    /\ getPathAverageSpeed("GAMMON_TM", 40, corridors) = Rat(70 * 12 + 40 * 8, 20)
    /\ getPathAverageSpeed("FUTURE_PATH", 80, corridors) = RInt(MIXER_MAX_SPEED)
---------------------------------------------------------------------------
(* The cap on the speed of a truck, in the latest and in the earlier revision *)

\* every truck of the map runs at cap or below
SpeedsCapped(st, cap) ==
    \A i \in 1..Len(st.activeTrucks) : RLe(st.activeTrucks[i].currentSpeed, RInt(cap))

CappedAfter(before, after) == SpeedsCapped(after, MIXER_MAX_SPEED)

\* session requests whose default speed lies below and above both caps
FastSessionConfigs ==
    {[routeId |-> 0, targetVolume |-> 16, volumePerTruck |-> 8, trucksPerHour |-> 2,
      startTime |-> now, defaultSpeed |-> d] : d \in {40, 80}}

\* the cache of the state and the cache without a sample
CachesOrNone == {corridors, QuietCorridors}

\* the latest revision: the trucks of the state, the trucks after every call, and the
\* trucks a session with a fast default dispatches, ticks and hydrates
LatestCapped ==
    /\ SpeedsCapped(St, MIXER_MAX_SPEED)
    /\ AfterEveryCall(CappedAfter)
    /\ \A cfg \in FastSessionConfigs, geo \in PathGeometryChoices, cs \in CachesOrNone,
          pathId \in PathIds, dt \in WideDts :
          LET s0 == startDeliverySession(St, cfg, geo, now, cs)
              s1 == dispatchTruck(s0, pathId, now, cs)
              s2 == tickDelivery(s1, dt, now + dt, cs)
              s3 == hydrateFromTrips(s2, <<DbTrip("a")>>, cfg.defaultSpeed, now + dt)
          IN  /\ SpeedsCapped(s1, MIXER_MAX_SPEED)
              /\ SpeedsCapped(s2, MIXER_MAX_SPEED)
              /\ SpeedsCapped(s3, MIXER_MAX_SPEED)

\* the earlier revision: the truck a session dispatches at its start and the trucks
\* after a tick
EarlierCapped ==
    \A cfg \in FastSessionConfigs, cs \in CachesOrNone, dt \in WideDts :
       LET s1 == startDeliverySessionV1(StV1, cfg, RouteGeometryV1, now, cs)
           s2 == tickDeliveryV1(s1, dt, now + dt, cs)
       IN  /\ SpeedsCapped(s1, MIXER_MAX_SPEED_V1)
           /\ SpeedsCapped(s2, MIXER_MAX_SPEED_V1)

\* C26: every truck's currentSpeed is at most the mixer maximum speed of its
\* revision, whether dispatch, a tick or the hydration from the trips table set
\* it, and whether it came from the traffic cache or from the default speed of
\* the session or of the hydration, a default above the cap included.
C26_SpeedCapped == LatestCapped /\ EarlierCapped

\* the latest revision alone keeps the cap
C26_LatestCapped == LatestCapped

\* the earlier revision keeps the cap where the cache has a sample or the default
\* speed is within the cap
C26_EarlierCappedWithSample ==
    \A cfg \in FastSessionConfigs, cs \in CachesOrNone, dt \in WideDts :
       LET s1 == startDeliverySessionV1(StV1, cfg, RouteGeometryV1, now, cs)
           s2 == tickDeliveryV1(s1, dt, now + dt, cs)
       IN  (cfg.defaultSpeed <= MIXER_MAX_SPEED_V1
              \/ \E r \in DOMAIN cs : cs[r] # NoSample /\ cs[r].speed > 0)
           => SpeedsCapped(s1, MIXER_MAX_SPEED_V1) /\ SpeedsCapped(s2, MIXER_MAX_SPEED_V1)
---------------------------------------------------------------------------
(* The two completion paths on the same truck, log, session and arrival time *)

LastRecord(st) == st.deliveryLog[Len(st.deliveryLog)]

\* the trips whose truck is in the active map
MappedTrips(st) ==
    {tripId \in TripIds : st.tripToTruckId[tripId] # NoId
                          /\ MapHas(st.activeTrucks, st.tripToTruckId[tripId])}

\* arrival times before, at and after the clock of the state
ArrivalTimes == {now - ClockStep, now, now + 4 * ClockStep}

\* both paths append one record, and the two records agree in hourWindow and
\* cumulativeVolume
SameRecord(st, tripId, t) ==
    LET synthetic == completeTruck(st, st.tripToTruckId[tripId], t)
        fromDb == completeTruckFromDb(st, tripId, t)
    IN  /\ Len(synthetic.deliveryLog) = Len(st.deliveryLog) + 1
        /\ Len(fromDb.deliveryLog) = Len(st.deliveryLog) + 1
        /\ LastRecord(synthetic).hourWindow = LastRecord(fromDb).hourWindow
        /\ LastRecord(synthetic).cumulativeVolume = LastRecord(fromDb).cumulativeVolume

\* C27: completeTruck and completeTruckFromDb, given the same truck, the same
\* delivery log, the same session start and the same arrival time, append a
\* record with the same hourWindow and the same cumulativeVolume.
C27_SameRecord ==
    \A tripId \in MappedTrips(St), t \in ArrivalTimes : SameRecord(St, tripId, t)

\* they do for every arrival that is not earlier than the start of the session, and
\* then the whole record is the same
C27_SameFromStartOn ==
    \A tripId \in MappedTrips(St), t \in ArrivalTimes :
       t >= config.startTime
       => /\ SameRecord(St, tripId, t)
          /\ LastRecord(completeTruck(St, tripToTruckId[tripId], t))
                = LastRecord(completeTruckFromDb(St, tripId, t))

\* a truck of a trip in a session that starts later than the clock: the two paths
\* give hourWindow -1 and 0
C27_Differ ==
    \E tripId \in MappedTrips(St) :
       /\ now < config.startTime
       /\ LastRecord(completeTruck(St, tripToTruckId[tripId], now)).hourWindow = -1
       /\ LastRecord(completeTruckFromDb(St, tripId, now)).hourWindow = 0
---------------------------------------------------------------------------
(* Sessions under the tick timer alone.  A session is started and trips are  *)
(* hydrated into it; from then on the one-second timer of the server ticks   *)
(* the engine (index.ts:1336-1340), the traffic timer refreshes the cache    *)
(* and the session may be stopped.  The timer is a setInterval: it fires     *)
(* for as long as the process runs, which is weak fairness of its action.    *)

\* the clock up to which the timer is followed: every truck that ticks has arrived
\* well before it, at 20 km / 28 km/h = 2572 s after the start of its trip
MaxLiveClock == 3600

\* the steps of the timer, as seen by the model
LiveDts == {ClockStep \div 2, ClockStep}

\* the clock at which the session is started
LiveStarts == {0, ClockStep \div 2}

\* the engine after the module is loaded
LoadedSt ==
    [config |-> NoConfig, activeTrucks |-> <<>>, deliveryLog |-> <<>>,
     nextTruckNumber |-> 1, nextDispatchTime |-> NoDate, isRunning |-> FALSE,
     tripToTruckId |-> [x \in TripIds |-> NoId]]

\* the cache before the first fetch, and after a fetch that reported corridor 1
LiveCaches(t) ==
    {[r \in 1..5 |-> NoSample]}
        \cup {updateCorridorState([r \in 1..5 |-> NoSample], 1, speedToState(v), v, t) :
                 v \in {20, 80}}

\* a session started at the clock, with or without the geometry of the trucks' path,
\* and the trips of the table hydrated into it
InitLive ==
    /\ InitStitcher /\ InitLegacy /\ InitAsync
    /\ routeGeometry = NoGeometry
    /\ now \in LiveStarts
    /\ corridors \in LiveCaches(now)
    /\ \E sessionConfig \in SessionConfigs, pathGeometries \in WidePathGeometries,
          trips \in TripLists, speed \in HydrateSpeeds :
          LET started == startDeliverySession(LoadedSt, sessionConfig, pathGeometries,
                                              now, corridors)
              st == hydrateFromTrips(started, trips, speed, now)
          IN  /\ config = st.config
              /\ activeTrucks = st.activeTrucks
              /\ deliveryLog = st.deliveryLog
              /\ nextTruckNumber = st.nextTruckNumber
              /\ nextDispatchTime = st.nextDispatchTime
              /\ isRunning = st.isRunning
              /\ tripToTruckId = st.tripToTruckId

\* the timer fires: time has passed, and a running session is ticked
TickLive ==
    \E dt \in LiveDts :
       /\ now + dt <= MaxLiveClock
       /\ now' = now + dt
       /\ Apply(IF isRunning THEN tickDelivery(St, dt, now', corridors) ELSE St)
       /\ UNCHANGED corridors

NextLive ==
    \/ TickLive
    \/ UpdateTrafficData
    \/ StopDelivery

\* the clock moves on.  The timer's action is the only one that moves the clock, and
\* it can fire exactly when the clock can move: weak fairness of the advance of the
\* clock is weak fairness of the timer
ClockAdvances == \E dt \in LiveDts : now + dt <= MaxLiveClock /\ now' = now + dt

SpecLive == InitLive /\ [][NextLive]_vars /\ WF_now(ClockAdvances)
\* the ids of the trucks of the trips
LiveTruckIds == {TripTruckId(tripId) : tripId \in TripIds}

\* the geometry of a path is there and has coordinates
HasPathGeometry(cfg, pathId) ==
    /\ cfg.pathGeometries[pathId] # NoGeometry
    /\ Len(cfg.pathGeometries[pathId].coordinates) > 0

\* the truck is EN_ROUTE in a running session that has the geometry of its path and a
\* positive speed for it
TicksTowardsArrival(id) ==
    /\ isRunning /\ config # NoConfig
    /\ MapHas(activeTrucks, id)
    /\ MapGet(activeTrucks, id).status = "en-route"
    /\ HasPathGeometry(config, MapGet(activeTrucks, id).pathId)
    /\ RLt(RZero, getPathAverageSpeed(MapGet(activeTrucks, id).pathId,
                                      config.defaultSpeed, corridors))

IsArrived(id) == MapHas(activeTrucks, id) /\ MapGet(activeTrucks, id).status = "arrived"

\* speed x elapsedSeconds / 3600 has reached totalDistance
ReachedEnd(truck) ==
    RLe(RInt(truck.totalDistance),
        RDiv(RMul(truck.currentSpeed, RInt(truck.elapsedSeconds)), RInt(SecondsPerHour)))

\* a tick completes a truck exactly when the distance it computes reaches the end
CompletedWhenReached ==
    \A id \in LiveTruckIds :
       TicksTowardsArrival(id) /\ now' # now
       => /\ MapHas(activeTrucks', id)
          /\ MapGet(activeTrucks', id).elapsedSeconds
                = MapGet(activeTrucks, id).elapsedSeconds + (now' - now)
          /\ ~ReachedEnd(MapGet(activeTrucks, id))
          /\ MapGet(activeTrucks', id).status
                = IF ReachedEnd(MapGet(activeTrucks', id)) THEN "arrived" ELSE "en-route"

---------------------------------------------------------------------------
(* Which corridors the stitcher uses *)

\* the coordinates of the line of a corridor id, none for an id without corridor,
\* without geometry or with a geometry that is no line
LineOf(routeId) ==
    IF routeId \notin DOMAIN StitchCorridors THEN <<>>
    ELSE IF StitchCorridors[routeId] = NoCorridor THEN <<>>
    ELSE IF StitchCorridors[routeId].geometry = NoGeometry THEN <<>>
    ELSE CorridorCoords(StitchCorridors[routeId])

\* the positions of the list of ids that name a line of two coordinates or more
UsablePositions == {k \in 1..Len(stitchRouteIds) : Len(LineOf(stitchRouteIds[k])) >= 2}

\* the usable positions in list order
UsableInOrder ==
    SelectSeq([k \in 1..Len(stitchRouteIds) |-> k], LAMBDA k : k \in UsablePositions)

CoordsOf(path) == {path[i] : i \in 1..Len(path)}

\* C29: the stitcher uses every usable segment exactly once.  Ids without a
\* corridor, without a line or with fewer than two coordinates are skipped; the
\* result is null exactly when no id of the list is usable; otherwise
\* segmentCount is the number of usable positions of the list, an id listed
\* twice counting twice, every step of the loop takes one segment not taken
\* before until none is left, and the coordinates of the output are those of
\* the usable segments, a dropped junction coordinate being there as the one
\* before it.  A single usable segment is returned as it is or reversed, with
\* segmentCount 1.
C29_EverySegmentOnce ==
    stitchedPath # NotStitched
        => /\ stitchedPath = NoGeometry <=> UsablePositions = {}
           /\ stitchedPath # NoGeometry
                 => /\ stitchedPath.segmentCount = Cardinality(UsablePositions)
                    /\ Len(StitchSegments) = Len(UsableInOrder)
                    /\ \A j \in 1..Len(UsableInOrder) :
                          /\ StitchSegments[j].routeId = stitchRouteIds[UsableInOrder[j]]
                          /\ StitchSegments[j].coords = LineOf(stitchRouteIds[UsableInOrder[j]])
                    /\ Len(StitchSteps) = Len(StitchSegments) + 1
                    /\ \A k \in 1..(Len(StitchSteps) - 1) :
                          /\ StitchSteps[k].used \subseteq StitchSteps[k + 1].used
                          /\ Cardinality(StitchSteps[k + 1].used)
                                = Cardinality(StitchSteps[k].used) + 1
                    /\ StitchSteps[Len(StitchSteps)].used = 1..Len(StitchSegments)
                    /\ CoordsOf(stitchedPath.coordinates)
                          = UNION {CoordsOf(LineOf(stitchRouteIds[k])) : k \in UsablePositions}
                    /\ Cardinality(UsablePositions) = 1
                          => LET only == LineOf(stitchRouteIds[UsableInOrder[1]])
                             IN  /\ stitchedPath.segmentCount = 1
                                 /\ stitchedPath.coordinates \in {only, Reverse(only)}

\* a list that names a corridor twice and a line of one coordinate between: the
\* corridor is stitched twice, the second time turned round, segmentCount is 2
C29_Witness ==
    /\ stitchRouteIds = <<1, 5, 1>>
    /\ stitchStart = NoStart
    /\ stitchedPath = [coordinates |-> <<<<0, 0>>, <<1, 0>>, <<0, 0>>>>, segmentCount |-> 2]
---------------------------------------------------------------------------
(* Which segment a step of the stitcher takes, and which way round *)

Least(a, b) == IF a <= b THEN a ELSE b

\* the squared distance of the nearer end of segment i from a point
EndDistance(i, point) ==
    Least(segDist(point, StitchSegments[i].coords[1]),
          segDist(point, StitchSegments[i].coords[Len(StitchSegments[i].coords)]))

\* the last coordinate is strictly nearer the point than the first
LastNearer(i, point) ==
    segDist(point, StitchSegments[i].coords[Len(StitchSegments[i].coords)])
        < segDist(point, StitchSegments[i].coords[1])

\* the cursor of step k: the anchor at the first step, the last output coordinate after
CursorAt(k) ==
    IF k = 1 THEN StitchAnchor
    ELSE StitchSteps[k].orderedCoords[Len(StitchSteps[k].orderedCoords)]

\* the segment step k takes, and the coordinates the step adds to the output
TakenAt(k) == CHOOSE i \in StitchSteps[k + 1].used : i \notin StitchSteps[k].used
AddedAt(k) ==
    SubSeq(StitchSteps[k + 1].orderedCoords, Len(StitchSteps[k].orderedCoords) + 1,
           Len(StitchSteps[k + 1].orderedCoords))

\* segment i the way the rule turns it at a point
Turned(i, point) ==
    IF LastNearer(i, point) THEN Reverse(StitchSegments[i].coords)
    ELSE StitchSegments[i].coords

\* C30: at each step the stitcher takes, among the segments not yet used, one
\* whose first or last coordinate has the least squared distance to the cursor,
\* the cursor being the anchor at the first step and the last output coordinate
\* afterwards; it appends the segment reversed exactly when its last coordinate
\* is strictly nearer the cursor than its first; of two segments at the same
\* distance it takes the one earlier in the list, and a segment whose ends are
\* equally near goes in forwards.
C30_NearestEndFirst ==
    stitchedPath \notin {NotStitched, NoGeometry}
        => \A k \in 1..(Len(StitchSteps) - 1) :
              LET unused == (1..Len(StitchSegments)) \ StitchSteps[k].used
                  taken == TakenAt(k)
              IN  /\ StitchSteps[k].cursor = CursorAt(k)
                  /\ taken \in unused
                  /\ \A i \in unused :
                        /\ EndDistance(taken, CursorAt(k)) <= EndDistance(i, CursorAt(k))
                        /\ i < taken
                              => EndDistance(taken, CursorAt(k)) < EndDistance(i, CursorAt(k))
                  /\ AddedAt(k) \in {Turned(taken, CursorAt(k)),
                                     Tail(Turned(taken, CursorAt(k)))}
                  /\ AddedAt(k)[Len(AddedAt(k))]
                        = Turned(taken, CursorAt(k))[Len(StitchSegments[taken].coords)]

\* two segments with an end at the same distance from the anchor, the first of them
\* with both ends at that distance: it is taken first and goes in forwards
C30_Witness ==
    /\ stitchRouteIds = <<10, 2>>
    /\ stitchStart = NoStart
    /\ stitchedPath = [coordinates |-> <<<<0, 1>>, <<1, 1>>, <<1, 0>>, <<2, 0>>>>,
                       segmentCount |-> 2]
---------------------------------------------------------------------------
\* clock readings of a throughput query: on the hour, within it, and before a
\* session start that lies ahead
ThroughputTimes ==
    {now + k * ClockStep : k \in 0..10} \cup {now + 300, now + SecondsPerHour - 300}

\* the records of a log that carry hour window h
RecordsInWindow(log, h) == {k \in 1..Len(log) : log[k].hourWindow = h}

\* the pro-rated target of the hour in progress, in whole seconds:
\* floor(seconds into the hour x trucksPerHour / 3600)
ProRatedTarget(elapsedSeconds, trucksPerHour) ==
    ((elapsedSeconds % SecondsPerHour) * trucksPerHour) \div SecondsPerHour

\* the breakdown the analysis owes for a session evaluated at t
IsBreakdownAt(breakdown, st, t) ==
    LET elapsed == t - st.config.startTime
        currentWindow == elapsed \div SecondsPerHour
    IN  /\ Len(breakdown) = (IF currentWindow >= 0 THEN currentWindow + 1 ELSE 0)
        /\ \A i \in 1..Len(breakdown) :
               LET e == breakdown[i]
               IN  /\ e.hour = i - 1
                   /\ e.hour < currentWindow => e.target = st.config.trucksPerHour
                   /\ e.hour = currentWindow
                          => e.target = ProRatedTarget(elapsed, st.config.trucksPerHour)
                   /\ e.actual = Cardinality(RecordsInWindow(st.deliveryLog, e.hour))
                   /\ e.diff = e.actual - e.target

(* C31: with a config, the hourly breakdown of the throughput analysis has   *)
(* exactly one entry per hour window 0..currentWindow, in order, where       *)
(* currentWindow = floor(elapsed hours since the session start); an elapsed  *)
(* window has target trucksPerHour, the window in progress has               *)
(* floor(fraction of the hour elapsed x trucksPerHour), actual counts the    *)
(* delivery records of that window, and diff = actual - target.              *)
C31_HourlyBreakdown ==
    config # NoConfig
        => \A t \in ThroughputTimes, r \in {config.trucksPerHour, 3, 4} :
               LET st == [St EXCEPT !.config.trucksPerHour = r]
                   a  == getThroughputAnalysis(st, t)
               IN  /\ a.currentWindow = (t - config.startTime) \div SecondsPerHour
                   /\ IsBreakdownAt(a.hourlyBreakdown, st, t)

\* a session with a delivery in its first hour, looked at half an hour into its third
\* hour: two full windows and a pro-rated one, and a count that is not zero
C31_Witness ==
    /\ config # NoConfig
    /\ Len(deliveryLog) >= 1
    /\ now + 10 * ClockStep - config.startTime = 2 * SecondsPerHour + 2 * ClockStep
    /\ LET b == getThroughputAnalysis(St, now + 10 * ClockStep).hourlyBreakdown
       IN  /\ Len(b) = 3
           /\ b[1].target = config.trucksPerHour /\ b[1].actual >= 1
           /\ b[3].target >= 1 /\ b[3].target < config.trucksPerHour
           /\ b[3].diff < 0
---------------------------------------------------------------------------
(* The server with its awaits (index.ts:1160-1184, 1188-1357).  The startup  *)
(* awaits one traffic update, then today's delivery target, and only then    *)
(* starts the session of the day and installs the three timers; the routes   *)
(* of the HTTP layer answer from the moment the module is loaded.  A traffic *)
(* update is two steps, the request and the write of the answer to the       *)
(* cache, and anything may run in between.                                   *)

\* traffic requests awaited at a time
MaxFetches == 2

\* setInterval has been reached (index.ts:1335-1344)
TimersInstalled(phase) == phase = "done"

\* the requests still awaited once request i has been answered
SettleNone(fetches, i) == fetches

SettleFetch(fetches, i) == SubSeq(fetches, 1, i - 1) \o SubSeq(fetches, i + 1, Len(fetches))

\* the module loaded and the startup at its first await, the traffic update
InitFetch ==
    /\ InitEngine /\ InitStitcher /\ InitLegacy
    /\ trafficFetches = <<[startedAt |-> 0]>>
    /\ tripsTable = [x \in TripIds |-> NoRow]
    /\ syncCycles = <<>>
    /\ startupPhase = "traffic"

\* time passes while the startup waits: there is no timer yet
ClockPasses ==
    /\ ~TimersInstalled(startupPhase)
    /\ now < MaxClockSteps * ClockStep
    /\ now' = now + ClockStep
    /\ UNCHANGED <<corridors, config, activeTrucks, deliveryLog, nextTruckNumber,
                   nextDispatchTime, isRunning, tripToTruckId, routeGeometry,
                   stitchVars, legacyVars, asyncVars>>

\* the one-second timer, once installed
TimerTick == TimersInstalled(startupPhase) /\ TickTimer

\* the sixty-second timer calls updateTrafficData, which sends its request and awaits
BeginFetch ==
    /\ TimersInstalled(startupPhase)
    /\ Len(trafficFetches) < MaxFetches
    /\ trafficFetches' = Append(trafficFetches, [startedAt |-> now])
    /\ UNCHANGED <<engineVars, stitchVars, legacyVars, tripsTable, syncCycles,
                   startupPhase>>

\* a request is answered, with what the feed had when it was asked, and the rest of
\* updateTrafficData runs; the startup moves on to its next await when it was its own
ResolveFetch ==
    \E i \in 1..Len(trafficFetches) :
        \E response \in FeedResponses(trafficFetches[i].startedAt) :
            /\ corridors' = updateTrafficData(corridors, fetchTrafficSpeedMap(response), now)
            /\ trafficFetches' = SettleFetch(trafficFetches, i)
            /\ startupPhase' = IF startupPhase = "traffic" THEN "target" ELSE startupPhase
            /\ UNCHANGED <<now, config, activeTrucks, deliveryLog, nextTruckNumber,
                           nextDispatchTime, isRunning, tripToTruckId, routeGeometry,
                           stitchVars, legacyVars, tripsTable, syncCycles>>

\* today's target has been read: the session of the day is started and the timers
\* are installed
StartupContinues ==
    /\ startupPhase = "target"
    /\ \E sessionConfig \in SessionConfigs, pathGeometries \in PathGeometryChoices :
           ApplyEngine(startDeliverySession(St, sessionConfig, pathGeometries, now,
                                            corridors))
    /\ startupPhase' = "done"
    /\ UNCHANGED <<now, corridors, routeGeometry, stitchVars, legacyVars,
                   trafficFetches, tripsTable, syncCycles>>

\* the five-second timer, once installed
TimerSync == TimersInstalled(startupPhase) /\ SyncTrucksFromDb

NextFetch ==
    \/ ClockPasses
    \/ TimerTick
    \/ BeginFetch
    \/ ResolveFetch
    \/ StartupContinues
    \/ TimerSync
    \/ StartDeliverySession
    \/ StopDelivery

SpecFetch == InitFetch /\ [][NextFetch]_vars
---------------------------------------------------------------------------
\* a traffic request is awaited
FetchInFlight == trafficFetches # <<>>

\* the trucks on the road
EnRouteTrucks == {i \in 1..Len(activeTrucks) : activeTrucks[i].status = "en-route"}

\* the clock and the delivery log leave room for one more tick
RoomForTick ==
    /\ now < MaxClockSteps * ClockStep
    /\ Len(deliveryLog) + Cardinality(EnRouteTrucks) <= MaxLog

\* the cache as the answer to request i would leave it
CacheAfterAnswer(i) ==
    updateTrafficData(corridors,
                      SegmentsOf(TrafficIds, FeedSpeed(trafficFetches[i].startedAt)), now)

\* the cache is written only by a step that settles a request
CacheWrittenAtResolution ==
    corridors' # corridors => Len(trafficFetches') < Len(trafficFetches)

\* a tick while a request is awaited is the tick of the cache as it stands, and leaves
\* the cache and the request alone
TickUsesCache ==
    (FetchInFlight /\ TimersInstalled(startupPhase) /\ now' # now)
        => /\ corridors' = corridors
           /\ trafficFetches' = trafficFetches
           /\ St' = (IF isRunning THEN tickDelivery(St, ClockStep, now', corridors)
                     ELSE St)

\* the timer's tick can run: the timer is installed and the result is within bounds
CanTick ==
    /\ TimersInstalled(startupPhase)
    /\ now < MaxClockSteps * ClockStep
    /\ Bounded(IF isRunning THEN tickDelivery(St, ClockStep, now + ClockStep, corridors)
               ELSE St)

\* once the timers are installed, a request awaited leaves the tick free to run
TickFreeAfterStartup ==
    (FetchInFlight /\ RoomForTick /\ TimersInstalled(startupPhase)) => CanTick

(* C32: once the startup has installed the timers, a traffic fetch in        *)
(* progress does not block the simulation: between the start of a fetch and  *)
(* its resolution the tick can run and computes with the speeds already in   *)
(* the cache, and the cache changes only at the step where a fetch resolves. *)
C32_FetchDoesNotBlock ==
    /\ []TickFreeAfterStartup
    /\ [][CacheWrittenAtResolution /\ TickUsesCache]_vars

\* a request sent a tick ago is still awaited; a truck on the road has just been moved
\* at the speed of the cache, which is not the speed the answer will bring
C32_Witness ==
    /\ TimersInstalled(startupPhase)
    /\ FetchInFlight
    /\ isRunning
    /\ \E i \in 1..Len(trafficFetches), k \in EnRouteTrucks :
           LET truck == activeTrucks[k]
           IN  /\ trafficFetches[i].startedAt < now
               /\ truck.elapsedSeconds > 0
               /\ truck.currentSpeed
                      = getPathAverageSpeed(truck.pathId, config.defaultSpeed, corridors)
               /\ truck.currentSpeed
                      # getPathAverageSpeed(truck.pathId, config.defaultSpeed,
                                            CacheAfterAnswer(i))

(* C32 as stated: whenever a traffic fetch is in progress, the ticks of a     *)
(* running session keep running.                                             *)
C32_AsStated == (FetchInFlight /\ RoomForTick /\ isRunning) => CanTick

\* the startup awaits its traffic update, a session has been started over HTTP, and no
\* tick can run
C32_BlockedAtStartup ==
    /\ startupPhase = "traffic"
    /\ FetchInFlight /\ RoomForTick
    /\ isRunning
    /\ ~CanTick
---------------------------------------------------------------------------
\* speeds a segment of the feed may carry, with both thresholds and their neighbours
FeedSpeeds == {0, 20, 29, 30, 31, 49, 50, 51, 80}

\* the states whose range of the table holds a speed
StatesOf(speed) ==
    {s \in {"RED", "YELLOW", "GREEN"} :
        \/ s = "RED" /\ speed < 30
        \/ s = "YELLOW" /\ 30 <= speed /\ speed < 50
        \/ s = "GREEN" /\ speed >= 50}

\* every entry of a cache stores the state of the speed stored with it
CacheClassified(cs) ==
    \A r \in DOMAIN cs : cs[r] # NoSample => StatesOf(cs[r].speed) = {cs[r].state}

\* answers of the feed with two segments at speeds of their own
TwoSpeedResponses ==
    {[kind |-> "parsed",
      segments |-> <<[segmentId |-> 1, speed |-> v], [segmentId |-> 5, speed |-> w]>>] :
        v \in FeedSpeeds, w \in {29, 50}}

(* C33: speedToState puts every speed in exactly one state, RED below 30,    *)
(* YELLOW from 30 to below 50, GREEN from 50 on; every entry of the traffic  *)
(* cache, in every reachable state and after a traffic update with any       *)
(* speeds, stores the state that classifies the speed stored with it.        *)
C33_SpeedToState ==
    /\ \A v \in FeedSpeeds : StatesOf(v) = {speedToState(v)}
    /\ CacheClassified(corridors)
    /\ \A response \in TwoSpeedResponses :
           CacheClassified(updateTrafficData(corridors, fetchTrafficSpeedMap(response),
                                             now + 1))

\* a congested entry written by a traffic update, which an update at the lower
\* threshold turns YELLOW
C33_Witness ==
    /\ corridors[1] # NoSample
    /\ corridors[1].speed = 20 /\ corridors[1].state = "RED"
    /\ LET cs == updateTrafficData(corridors,
                                   <<[segmentId |-> 1, speed |-> 30]>>, now + 1)
       IN  cs[1].speed = 30 /\ cs[1].state = "YELLOW"
---------------------------------------------------------------------------
\* arrivalTime is null exactly while the truck has not arrived
ArrivalMatchesStatus(truck) == (truck.arrivalTime = NoDate) <=> (truck.status # "arrived")

AllTimed(st) == \A truck \in Trucks(st.activeTrucks) : ArrivalMatchesStatus(truck)

(* C34: a truck's arrivalTime is null exactly while its status is not        *)
(* ARRIVED.  This holds of every truck of the active map in every reachable  *)
(* state and after every call of the engine from it, of the truck a          *)
(* dispatch adds and the tick moves or completes, and of the truck           *)
(* addTruckFromTrip returns.                                                 *)
C34_ArrivalTimeNullUntilArrived ==
    /\ AllTimed(St)
    /\ AfterEveryCall(LAMBDA before, after : AllTimed(after))
    /\ \A pathId \in PathIds :
           LET dispatched == dispatchTruck(St, pathId, now, corridors)
           IN  /\ AllTimed(dispatched)
               /\ \A dt \in WideDts :
                      AllTimed(tickDelivery(dispatched, dt, now + dt, corridors))
    /\ \A id \in TripIds, speed \in WideSpeeds :
           \A trip \in WideRows(id) :
               LET truck == addTruckFromTripResult(St, trip, 20, speed, now)
               IN  truck # NoTruck => ArrivalMatchesStatus(truck)

\* a truck the tick completed, still in the map with its arrival time, and a truck on the
\* road that a dispatch adds beside it, with none
C34_Witness ==
    /\ \E truck \in Trucks(activeTrucks) :
           truck.status = "arrived" /\ truck.arrivalTime = <<now>>
    /\ LET dispatched == dispatchTruck(St, "GAMMON_TM", now, corridors)
       IN  /\ DispatchSucceeded(St, dispatched)
           /\ \E truck \in Trucks(dispatched.activeTrucks) :
                  truck.status = "en-route" /\ truck.arrivalTime = NoDate
---------------------------------------------------------------------------
\* the trips of a list that are in progress and have a start time
HydratableIds(trips) ==
    {trips[i].id : i \in {k \in 1..Len(trips) :
                             /\ trips[k].status = "in_progress"
                             /\ trips[k].actual_start_at # NoDate}}

\* the truck is none of hydration's business: a dispatched one, or one of a trip that
\* the list does not hold as hydratable
OutOfReach(truck, trips) == ~IsDbTruck(truck) \/ truck.truckId[2] \notin HydratableIds(trips)

\* what a hydration with a trip list may do to the trucks, the mapping and the log
HydrationFrame(before, after, trips) ==
    /\ \A truck \in Trucks(before.activeTrucks) :
           OutOfReach(truck, trips)
               => /\ MapHas(after.activeTrucks, truck.truckId)
                  /\ MapGet(after.activeTrucks, truck.truckId) = truck
    /\ \A truck \in Trucks(after.activeTrucks) :
           truck \notin Trucks(before.activeTrucks) => ~OutOfReach(truck, trips)
    /\ \A tripId \in TripIds \ HydratableIds(trips) :
           after.tripToTruckId[tripId] = before.tripToTruckId[tripId]
    /\ IsPrefix(before.deliveryLog, after.deliveryLog)

\* the states a hydration is called in: the current one, and the one a dispatch leaves
WithDispatch ==
    {St} \cup {dispatchTruck(St, pathId, now, corridors) : pathId \in {"GAMMON_TM", "HKC_TY"}}

(* C35: hydrateFromTrips creates or updates trucks, and touches mapping      *)
(* entries, only for the trips of its list that are in progress and have a   *)
(* start time; every dispatched truck, every truck of another trip and       *)
(* every delivery record already in the log is left as it was.               *)
C35_HydrateFrame ==
    \A before \in WithDispatch, trips \in WideTripLists, speed \in WideSpeeds :
        HydrationFrame(before, hydrateFromTrips(before, trips, speed, now), trips)

\* a dispatched truck, the truck of trip b and a delivery record, before a hydration of
\* trip a, started a quarter of an hour in, that adds a truck beside them
C35_Witness ==
    /\ Len(deliveryLog) >= 1
    /\ MapHas(activeTrucks, TripTruckId("b"))
    /\ ~MapHas(activeTrucks, TripTruckId("a"))
    /\ LET before == dispatchTruck(St, "GAMMON_TM", now, corridors)
           tripA == [id |-> "a", status |-> "in_progress", actual_start_at |-> <<ClockStep>>]
           after == hydrateFromTrips(before, <<tripA>>, 40, now)
       IN  /\ SyntheticTrucks(before.activeTrucks) # {}
           /\ SyntheticTrucks(after.activeTrucks) = SyntheticTrucks(before.activeTrucks)
           /\ MapHas(after.activeTrucks, TripTruckId("a"))
           /\ MapGet(after.activeTrucks, TripTruckId("a")).status = "en-route"
           /\ MapGet(after.activeTrucks, TripTruckId("b"))
                  = MapGet(activeTrucks, TripTruckId("b"))
           /\ after.deliveryLog = deliveryLog
---------------------------------------------------------------------------
\* the trip is mapped and its truck is in the active map
MappedLive(st, tripId) ==
    st.tripToTruckId[tripId] # NoId /\ MapHas(st.activeTrucks, st.tripToTruckId[tripId])

\* the trip is mapped and its truck is gone
MappedStale(st, tripId) ==
    st.tripToTruckId[tripId] # NoId /\ ~MapHas(st.activeTrucks, st.tripToTruckId[tripId])

\* every trip truck of the active map has exactly one mapping entry, its own trip's
TrucksAreMapped(st) ==
    \A truck \in DbTrucks(st.activeTrucks) :
        {t \in TripIds : st.tripToTruckId[t] = truck.truckId} = {truck.truckId[2]}

\* every mapping entry names the truck of its trip
EntriesNameTheirTruck(st) ==
    \A t \in TripIds : st.tripToTruckId[t] # NoId => st.tripToTruckId[t] = TripTruckId(t)

\* a mapping entry loses its truck only in a step that empties the active map and the
\* delivery log and leaves the mapping alone: a session start or a reset
StaleOnlyByStartOrReset ==
    \A t \in TripIds :
        (MappedLive(St, t) /\ MappedStale(St', t))
            => /\ activeTrucks' = <<>>
               /\ deliveryLog' = <<>>
               /\ tripToTruckId' = tripToTruckId

(* C36, as the code has it: every trip truck of the active map has exactly   *)
(* one mapping entry pointing to it, that of its trip, and every mapping     *)
(* entry names the truck of its trip.  An entry may outlive its truck, but   *)
(* only through startDeliverySession or resetDelivery, which clear the       *)
(* active map and leave the mapping.                                         *)
C36_TrucksMapped ==
    /\ [](TrucksAreMapped(St) /\ EntriesNameTheirTruck(St))
    /\ [][StaleOnlyByStartOrReset]_vars

\* a session started over one whose trip a was mapped: a's entry is stale, and trip b,
\* hydrated since, has its truck and its entry
C36_Witness ==
    /\ isRunning
    /\ MappedStale(St, "a")
    /\ MappedLive(St, "b")
    /\ deliveryLog = <<>>

(* C36 as stated: in every reachable state every mapping entry refers to a   *)
(* truck that is in the active map, and every trip truck of the active map   *)
(* has exactly one mapping entry pointing to it.                             *)
C36_AsStated ==
    /\ \A t \in TripIds : tripToTruckId[t] # NoId => MapHas(activeTrucks, tripToTruckId[t])
    /\ TrucksAreMapped(St)
---------------------------------------------------------------------------
\* the calls the timers make of an engine between a reset and the next session start
IdleCalls(st) ==
    {tickDelivery(st, dt, now + dt, corridors) : dt \in {1, ClockStep}}
        \cup {hydrateFromTrips(st, trips, 40, now) : trips \in TripLists}
        \cup {pruneInactiveTrips(st, ids) : ids \in SUBSET TripIds}

\* the states one or two such calls lead to after a reset
AfterResetAndCalls ==
    LET first == IdleCalls(resetDelivery(St))
    IN  first \cup UNION {IdleCalls(st) : st \in first}

\* not running, no status to report
IsIdle(st) == ~st.isRunning /\ getDeliveryStatus(st, now) = NoStatus

\* no truck and no delivery record
IsEmpty(st) == st.activeTrucks = <<>> /\ st.deliveryLog = <<>>

(* C37: after resetDelivery, and until the next startDeliverySession, the    *)
(* engine stays idle under tickDelivery, hydrateFromTrips and                *)
(* pruneInactiveTrips: isDeliveryRunning() stays false, getDeliveryStatus()  *)
(* stays null, and no truck or delivery record is created.                   *)
C37_IdleAfterReset == \A st \in AfterResetAndCalls : IsIdle(st) /\ IsEmpty(st)

\* what does hold after a reset: no truck and no record is created, and the engine is
\* idle as long as no hydration has run
C37_EmptyAfterReset ==
    /\ \A st \in AfterResetAndCalls : IsEmpty(st)
    /\ \A dt \in {1, ClockStep}, ids \in SUBSET TripIds :
           IsIdle(pruneInactiveTrips(tickDelivery(resetDelivery(St), dt, now + dt, corridors),
                                     ids))

\* a session with a trip truck is reset and the next sync hydrates: the engine reports a
\* running session of 600 m3 that nobody started
C37_RunningAfterReset ==
    /\ activeTrucks # <<>>
    /\ LET st == hydrateFromTrips(resetDelivery(St), <<DbTrip("a")>>, 40, now)
       IN  /\ st.isRunning
           /\ getDeliveryStatus(st, now) # NoStatus
           /\ st.config.targetVolume = 600
---------------------------------------------------------------------------
(* The sync cycle with its await (index.ts:1197-1226).  The five-second      *)
(* timer starts a cycle whether or not the last one has finished; its query  *)
(* reads the trips table at one moment and answers at a later one, and the   *)
(* pool of db.ts lets the answers of two queries arrive in either order.     *)
(* The rest of the cycle, the hydration and the prune, runs in one piece     *)
(* when the answer arrives.  The trips table is written by the trip routes   *)
(* of the HTTP layer (index.ts:1691-1714, 1855-1890).                        *)

\* sync cycles of a run
MaxSyncs == 2

RECURSIVE RowsOf(_, _)
\* the rows of the trips in ids, by start time (order by actual_start_at asc)
RowsOf(table, ids) ==
    IF ids = {} THEN <<>>
    ELSE LET first == CHOOSE x \in ids :
                          \A y \in ids : table[x].actual_start_at[1] <= table[y].actual_start_at[1]
         IN  <<[id |-> first, status |-> table[first].status,
                actual_start_at |-> table[first].actual_start_at]>>
                 \o RowsOf(table, ids \ {first})

\* what the query of a sync returns: today's trips
queryTrips(table) == RowsOf(table, {x \in TripIds : table[x].status # "absent"})

\* syncTrucksFromDb once its query has answered with rows
syncTrucksFromDb(st, rows, t) ==
    LET inProgress == SelectSeq(rows, LAMBDA r : r.status = "in_progress")
    IN  pruneInactiveTrips(hydrateFromTrips(st, inProgress, 40, t), TripIdsOf(inProgress))

\* the server running with the session of the day
InitSync ==
    /\ InitStitcher /\ InitLegacy /\ InitAsync
    /\ now = 0
    /\ corridors = [r \in 1..5 |-> NoSample]
    /\ routeGeometry = NoGeometry
    /\ \E sessionConfig \in SessionConfigs, pathGeometries \in PathGeometryChoices :
           LET st == startDeliverySession(LoadedSt, sessionConfig, pathGeometries, 0,
                                          corridors)
           IN  /\ config = st.config
               /\ activeTrucks = st.activeTrucks
               /\ deliveryLog = st.deliveryLog
               /\ nextTruckNumber = st.nextTruckNumber
               /\ nextDispatchTime = st.nextDispatchTime
               /\ isRunning = st.isRunning
               /\ tripToTruckId = st.tripToTruckId

\* POST /api/trips/start: a trip of today is inserted, in progress from now
TripStarts ==
    /\ \E x \in TripIds :
           /\ tripsTable[x].status = "absent"
           /\ tripsTable' = [tripsTable EXCEPT
                                ![x] = [status |-> "in_progress", actual_start_at |-> <<now>>]]
    /\ UNCHANGED <<engineVars, stitchVars, legacyVars, trafficFetches, syncCycles,
                   startupPhase>>

\* POST /api/trips/:id/arrive: the trip is completed
TripArrives ==
    /\ \E x \in TripIds :
           /\ tripsTable[x].status = "in_progress"
           /\ tripsTable' = [tripsTable EXCEPT ![x].status = "completed"]
    /\ UNCHANGED <<engineVars, stitchVars, legacyVars, trafficFetches, syncCycles,
                   startupPhase>>

\* the timer starts a cycle and its query reads the table
BeginSync ==
    /\ Len(syncCycles) < MaxSyncs
    /\ syncCycles' = Append(syncCycles, [rows |-> queryTrips(tripsTable), done |-> FALSE])
    /\ UNCHANGED <<engineVars, stitchVars, legacyVars, trafficFetches, tripsTable,
                   startupPhase>>

\* the answer of a query arrives and its cycle runs to the end
FinishSync ==
    \E i \in 1..Len(syncCycles) :
        /\ ~syncCycles[i].done
        /\ LET st == syncTrucksFromDb(St, syncCycles[i].rows, now)
           IN  Bounded(st) /\ ApplyEngine(st)
        /\ syncCycles' = [syncCycles EXCEPT ![i].done = TRUE]
        /\ UNCHANGED <<now, corridors, routeGeometry, stitchVars, legacyVars,
                       trafficFetches, tripsTable, startupPhase>>

NextSync ==
    \/ TimerTick
    \/ UpdateTrafficData
    \/ TripStarts
    \/ TripArrives
    \/ BeginSync
    \/ FinishSync

SpecSync == InitSync /\ [][NextSync]_vars
---------------------------------------------------------------------------
\* the trips in progress in the snapshot of cycle j
InProgressIn(j) ==
    {syncCycles[j].rows[k].id :
        k \in {n \in 1..Len(syncCycles[j].rows) :
                  syncCycles[j].rows[n].status = "in_progress"}}

\* this step applies the snapshot of cycle i
Applies(i) == ~syncCycles[i].done /\ syncCycles'[i].done

\* the cycles that read the table after cycle i and have been applied already
NewerApplied(i) == {j \in (i + 1)..Len(syncCycles) : syncCycles[j].done}

\* the truck of the trip is still in the active map after the step, no further back
KeptAndNotBehind(tripId) ==
    MapHas(activeTrucks, TripTruckId(tripId))
        => /\ MapHas(activeTrucks', TripTruckId(tripId))
           /\ RLe(MapGet(activeTrucks, TripTruckId(tripId)).progressRatio,
                  MapGet(activeTrucks', TripTruckId(tripId)).progressRatio)

(* C38: when sync cycles overlap, applying an older snapshot after a newer   *)
(* one never removes from the active map the truck of a trip that is in      *)
(* progress in the newer snapshot, and never lowers its progress.            *)
C38_OlderSnapshotHarmless ==
    [][\A i \in 1..Len(syncCycles) :
           Applies(i) => \A j \in NewerApplied(i) :
                             \A tripId \in InProgressIn(j) : KeptAndNotBehind(tripId)]_vars

\* applied in the order they were read, a snapshot keeps every truck whose trip is in
\* progress in it, no further back
C38_SnapshotKeepsItsTrips ==
    [][\A i \in 1..Len(syncCycles) :
           Applies(i) => \A tripId \in InProgressIn(i) : KeptAndNotBehind(tripId)]_vars

\* the newer snapshot has been applied and trip b's truck is on the road, while the
\* cycle that read the table before b started is still to be applied
C38_OlderPending ==
    /\ Len(syncCycles) = 2
    /\ ~syncCycles[1].done /\ syncCycles[2].done
    /\ "b" \in InProgressIn(2) /\ "b" \notin InProgressIn(1)
    /\ MapHas(activeTrucks, TripTruckId("b"))
    /\ tripsTable["b"].status = "in_progress"
---------------------------------------------------------------------------
RECURSIVE SumActual(_)
\* the sum of the 'actual' counts of a breakdown
SumActual(breakdown) ==
    IF Len(breakdown) = 0 THEN 0 ELSE Head(breakdown).actual + SumActual(Tail(breakdown))

\* the breakdown reported at t accounts for every record of the log
AllCounted(st, t) ==
    SumActual(getThroughputAnalysis(st, t).hourlyBreakdown) = Len(st.deliveryLog)

\* arrival times handed to completeTruckFromDb: now, and an hour ahead of the clock
DbArrivalTimes == {now, now + SecondsPerHour}

(* C39: whenever the throughput analysis is evaluated during a session, the  *)
(* 'actual' counts of the hourly breakdown add up to the number of records   *)
(* in the delivery log, also when the session start lies after an arrival    *)
(* and when completeTruckFromDb was given an arrival time after the          *)
(* evaluation time.                                                          *)
C39_ActualsSumToLog ==
    config # NoConfig
        => /\ AllCounted(St, now)
           /\ \A tripId \in TripIds, arrivalTime \in DbArrivalTimes :
                  AllCounted(completeTruckFromDb(St, tripId, arrivalTime), now)

\* what does hold: the counts never exceed the log, and they add up to it when every
\* record's window is one of the windows 0..currentWindow
C39_SumWithinLog ==
    config # NoConfig
        => \A tripId \in TripIds, arrivalTime \in DbArrivalTimes :
               LET st == completeTruckFromDb(St, tripId, arrivalTime)
                   a  == getThroughputAnalysis(st, now)
               IN  /\ SumActual(a.hourlyBreakdown) <= Len(st.deliveryLog)
                   /\ (\A k \in 1..Len(st.deliveryLog) :
                           /\ st.deliveryLog[k].hourWindow >= 0
                           /\ st.deliveryLog[k].hourWindow <= a.currentWindow)
                          => AllCounted(st, now)

\* a record in window -1, of a truck the tick completed before the session start: no
\* entry of the breakdown counts it
C39_RecordBeforeStart ==
    /\ config # NoConfig
    /\ \E k \in 1..Len(deliveryLog) : deliveryLog[k].hourWindow = -1
    /\ ~AllCounted(St, now)

\* a completion from the trips table an hour ahead: its record is in a window the
\* breakdown does not reach yet
C39_RecordAhead ==
    /\ config # NoConfig
    /\ now >= config.startTime
    /\ AllCounted(St, now)
    /\ \E tripId \in TripIds :
           LET st == completeTruckFromDb(St, tripId, now + SecondsPerHour)
           IN  /\ Len(st.deliveryLog) = Len(deliveryLog) + 1
               /\ ~AllCounted(st, now)

====
